---- MODULE Spec2Model ----
(***************************************************************************)
(* State-machine model of the step orchestrator of src/nea/agents.py:      *)
(* MultiStepAgent.run / stream_run / direct_run / planning_step /          *)
(* provide_final_answer and the two step() variants (CodeAgent,            *)
(* ToolCallingAgent).                                                      *)
(*                                                                         *)
(* The model, the parser, the executor and the tools are external          *)
(* collaborators: their results are inputs drawn from small sets.          *)
(* The message list built by write_inner_memory_from_logs is not modelled  *)
(* here; what is recorded is the length of self.logs at the moment it is   *)
(* read (input_len).                                                       *)
(***************************************************************************)
EXTENDS Integers, Sequences, FiniteSets, TLC

\* ------------------------------------------------------------------ bounds
MaxIter == 2
\* longest log a run with reset=False is started on
MaxKeptLog == 2

\* ------------------------------------------------------------------ values
\* A Python value is a record [t |-> type name, v |-> payload].
NoneV == [t |-> "NoneType", v |-> "None"]
StrV(s) == [t |-> "str", v |-> s]
IntV(s) == [t |-> "int", v |-> s]
DictV(s) == [t |-> "dict", v |-> s]
IsNone(x) == x.t = "NoneType"
IsStr(x) == x.t \in {"str", "AgentText"}

\* keys of the agent state that the inputs may bind
StateKeys == {"x"}
V42 == IntV("42")
EmptyState == [k \in {} |-> V42]
Update(st, m) == [j \in (DOMAIN st) \cup (DOMAIN m) |-> IF j \in DOMAIN m THEN m[j] ELSE st[j]]

\* exception kinds
NoExc == "None"
AgentErrorKinds ==
    {"AgentParsingError", "AgentExecutionError", "AgentGenerationError", "AgentMaxIterationsError"}
OtherExc == "Exception"
UnboundLocal == "UnboundLocalError"

\* types.handle_agent_output_types: a str is wrapped into AgentText, anything else is returned as is
handle_agent_output_types(output) ==
    IF output.t = "str" THEN [t |-> "AgentText", v |-> output.v] ELSE output

\* same Python value up to the AgentText wrapping of str
SameValue(a, b) == a.v = b.v /\ (a.t = b.t \/ (IsStr(a) /\ IsStr(b)))

\* ------------------------------------------------------------------ steps of the log
\* start_time and end_time record whether the field is set; duration records the expression
\* the field was assigned from
NoDuration == "None"
Elapsed == "end_time - start_time"
ZeroDuration == "0"
LastLoopStepElapsed == "step_log.end_time - step_start_time"

SystemPromptStep ==
    [kind |-> "SystemPromptStep", iteration |-> -1, error |-> NoExc, llm_output |-> FALSE,
     tool_call |-> "None", observations |-> FALSE, action_output |-> NoneV,
     start_time |-> FALSE, end_time |-> FALSE, duration |-> NoDuration]
TaskStep ==
    [kind |-> "TaskStep", iteration |-> -1, error |-> NoExc, llm_output |-> FALSE,
     tool_call |-> "None", observations |-> FALSE, action_output |-> NoneV,
     start_time |-> FALSE, end_time |-> FALSE, duration |-> NoDuration]
PlanningStep ==
    [kind |-> "PlanningStep", iteration |-> -1, error |-> NoExc, llm_output |-> FALSE,
     tool_call |-> "None", observations |-> FALSE, action_output |-> NoneV,
     start_time |-> FALSE, end_time |-> FALSE, duration |-> NoDuration]
ActionStep(it) ==
    [kind |-> "ActionStep", iteration |-> it, error |-> NoExc, llm_output |-> FALSE,
     tool_call |-> "None", observations |-> FALSE, action_output |-> NoneV,
     start_time |-> FALSE, end_time |-> FALSE, duration |-> NoDuration]

VARIABLES
    variant,            \* "CodeAgent" or "ToolCallingAgent"
    max_iterations,     \* self.max_iterations
    planning_interval,  \* self.planning_interval, 0 for None
    logs,               \* self.logs
    state,              \* self.state
    pc,                 \* "idle", "single", "loop", "returned", "raised"
    stream,             \* run(stream=...)
    reset,              \* run(reset=...)
    single_step,        \* run(single_step=...)
    iteration,          \* local of stream_run / direct_run
    final_answer,       \* local of stream_run / direct_run
    result,             \* value handed to the caller of run
    raised,             \* exception that reached the caller of run
    len0,               \* len(self.logs) when run was called
    hist,               \* one record per loop iteration of the current run
    fb,                 \* what the max-iterations fallback of the current run did
    last,               \* what the last call of step() did
    events,             \* the events of the current run, in the order they happened
    memory,             \* what the last call of the memory compactor was given and built
    dispatch,           \* what the last call of execute_tool_call was given and did
    remote,             \* what the last call of the remote executor was given and did
    construct,          \* what the construction of the remote executor was given and did
    validation,         \* what the last call of the tool validator was given and did
    managed,            \* the call of a managed agent that wraps this agent, if any
    run_args,           \* the additional_args of the current run, where the caller is observed
    server              \* the code-execution server: its streams and its client threads

\* the variables the run orchestrator leaves alone
aux == <<memory, dispatch, remote, construct, validation, managed, run_args, server>>

\* the variables of the run orchestrator other than the log and the agent state
control == <<variant, max_iterations, planning_interval, pc, stream, reset, single_step,
             iteration, final_answer, result, raised, len0, hist, fb, last, events>>

vars == <<variant, max_iterations, planning_interval, logs, state, pc, stream, reset,
          single_step, iteration, final_answer, result, raised, len0, hist, fb, last, events,
          memory, dispatch, remote, construct, validation, managed, run_args, server>>

NoFallback == [triggered |-> FALSE, idx |-> 0, input_len |-> 0, synth |-> "None"]
\* no step_log has been handed to self.step
NoStepLog == [ActionStep(-1) EXCEPT !.kind = "None"]
NoStep ==
    [variant |-> "None", tool_name |-> "None", arguments |-> NoneV, code |-> <<>>,
     output |-> NoneV, exc |-> NoExc, ret |-> NoneV, local_final |-> NoneV,
     step_log |-> NoStepLog]

\* one call of the compactor: the function, its argument or mode, the log at the time of
\* the call and what the call built
Compaction(fn, mode, lg, out) == [fn |-> fn, mode |-> mode, log |-> lg, out |-> out]
NoCompaction == Compaction("None", "None", <<>>, [exc |-> NoExc, msgs |-> <<>>])

\* nothing has been compacted, dispatched or executed remotely yet
NoMemory == [calls |-> 0, cur |-> NoCompaction, prev |-> NoCompaction]
NoDispatch == [called |-> FALSE]
NoRemote == [called |-> FALSE]
NoConstruct == [called |-> FALSE]
NoValidation == [called |-> FALSE]
NoManaged == [called |-> FALSE]
NoRunArgs == [recorded |-> FALSE]
NoServer == [started |-> FALSE]

\* MultiStepAgent.__init__
NewAgent ==
    /\ variant \in {"CodeAgent", "ToolCallingAgent"}
    /\ max_iterations \in 0..MaxIter
    /\ planning_interval \in {0, 1, 2}
    /\ logs = <<>>
    /\ state = EmptyState
    /\ pc = "idle"
    /\ stream = FALSE
    /\ reset = TRUE
    /\ single_step = TRUE
    /\ iteration = 0
    /\ final_answer = NoneV
    /\ result = NoneV
    /\ raised = NoExc
    /\ len0 = 0
    /\ hist = <<>>
    /\ fb = NoFallback
    /\ last = NoStep
    /\ events = <<>>

\* a new agent, used on its own
Init ==
    /\ NewAgent
    /\ memory = NoMemory
    /\ dispatch = NoDispatch
    /\ remote = NoRemote
    /\ construct = NoConstruct
    /\ validation = NoValidation
    /\ managed = NoManaged
    /\ run_args = NoRunArgs /\ server = NoServer

\* variant in which reset=True keeps the old log
PlaceSystemPromptNoClear(lg, rst) ==
    IF rst THEN Append(lg, SystemPromptStep)
    ELSE IF Len(lg) > 0 THEN [lg EXCEPT ![1] = SystemPromptStep]
    ELSE Append(lg, SystemPromptStep)

\* variant in which reset=False appends instead of replacing the first slot
PlaceSystemPromptAppend(lg, rst) ==
    IF rst THEN <<SystemPromptStep>> ELSE Append(lg, SystemPromptStep)

\* variant in which a run always starts from a cleared log
PlaceSystemPromptAlwaysClear(lg, rst) == <<SystemPromptStep>>

\* run, lines 474-482: the log after the system prompt step is placed
PlaceSystemPrompt(lg, rst) ==
    IF rst THEN <<SystemPromptStep>>
    ELSE IF Len(lg) > 0 THEN [lg EXCEPT ![1] = SystemPromptStep]
    ELSE Append(lg, SystemPromptStep)

\* MultiStepAgent.run(task, stream=s, reset=rst, single_step=single, additional_args) up to
\* the dispatch on single_step / stream
RunWith(s, rst, single, additional_args) ==
    /\ rst \/ Len(logs) <= MaxKeptLog
    /\ stream' = s
    /\ reset' = rst
    /\ state' = Update(state, additional_args)
    /\ logs' = Append(PlaceSystemPrompt(logs, rst), TaskStep)
    /\ single_step' = single
    /\ pc' = IF single THEN "single" ELSE "loop"
    /\ len0' = Len(logs)
    /\ iteration' = 0
    /\ final_answer' = NoneV
    /\ result' = NoneV
    /\ raised' = NoExc
    /\ hist' = <<>>
    /\ fb' = NoFallback
    /\ last' = NoStep
    /\ events' = <<>>
    /\ UNCHANGED <<variant, max_iterations, planning_interval>>

\* the additional_args argument of run: None, or a binding of every key
AdditionalArgs == {EmptyState, [k \in StateKeys |-> V42]}

\* a call of run by a user of the agent
RunBody ==
    /\ \E s \in BOOLEAN, rst \in BOOLEAN, single \in BOOLEAN, additional_args \in AdditionalArgs :
        RunWith(s, rst, single, additional_args)
    /\ UNCHANGED aux

\* a call of run on an agent that is not running: the first one, or one after a run has ended
Run == pc \in {"idle", "returned", "raised"} /\ RunBody

\* the first call of run on a new agent
FirstRun == pc = "idle" /\ RunBody

\* ------------------------------------------------------------------ CodeAgent.step
\* A code action is a sequence of lines; a line is a sequence of tokens.
FinalLine == <<"final_answer", "(x)">>
StmtLine == <<"x = 1">>
IndentedFinalLine == <<" ", "final_answer", "(x)">>
CodeActions == {<<FinalLine>>, <<StmtLine>>, <<StmtLine, FinalLine>>, <<IndentedFinalLine>>}

\* line[: len("final_answer")] == "final_answer"
StartsWithFinalAnswer(line) == Len(line) >= 1 /\ line[1] = "final_answer"

\* the value is_final_answer is initialised with before the scan of the lines
IsFinalAnswerInit == TRUE

RECURSIVE ScanLines(_, _, _)
ScanLines(code, i, acc) ==
    IF i > Len(code) THEN acc
    ELSE IF StartsWithFinalAnswer(code[i]) THEN TRUE
    ELSE ScanLines(code, i + 1, acc)

\* the for loop over code_action.split("\n")
is_final_answer(code) == ScanLines(code, 1, IsFinalAnswerInit)

\* variant of the return with the two branches swapped
CodeStepReturnSwapped(output, fin) == IF fin THEN NoneV ELSE output

\* return output if is_final_answer else None
CodeStepReturn(output, fin) == IF fin THEN output ELSE NoneV

\* what the executor may return as output
ExecOutputs == {NoneV, IntV("4"), StrV("v1")}

StepOutcome(e, llm, tc, obs, out, r, st, c, tn, args, lf) ==
    [exc |-> e, llm_output |-> llm, tool_call |-> tc, observations |-> obs,
     action_output |-> out, ret |-> r, st |-> st, code |-> c, output |-> out,
     tool_name |-> tn, arguments |-> args, local_final |-> lf]

NoArgs == [form |-> "None", key |-> "", val |-> NoneV]

\* every way one call of CodeAgent.step can end, from agent state st
CodeStep(st) ==
    \* the model call raises
    {StepOutcome("AgentGenerationError", FALSE, "None", FALSE, NoneV, NoneV, st, <<>>, "None", NoArgs, NoneV)}
    \cup
    \* rendering the model output raises, outside every try block
    {StepOutcome(OtherExc, TRUE, "None", FALSE, NoneV, NoneV, st, <<>>, "None", NoArgs, NoneV)}
    \cup
    \* parse_code_blob raises
    {StepOutcome("AgentParsingError", TRUE, "None", FALSE, NoneV, NoneV, st, <<>>, "None", NoArgs, NoneV)}
    \cup
    \* the executor raises
    {StepOutcome("AgentExecutionError", TRUE, "python_interpreter", FALSE, NoneV, NoneV, st2, c,
                 "python_interpreter", NoArgs, NoneV) :
        st2 \in {st}, c \in CodeActions}
    \cup
    \* the executor returns (output, execution_logs)
    {StepOutcome(NoExc, TRUE, "python_interpreter", TRUE, o, CodeStepReturn(o, is_final_answer(c)), st2, c,
                 "python_interpreter", NoArgs, NoneV) :
        st2 \in {st}, c \in CodeActions, o \in ExecOutputs}

\* ------------------------------------------------------------------ ToolCallingAgent.step
ToolNames == {"final_answer", "web_search"}
ToolArguments ==
    {[form |-> "str", key |-> "", val |-> w] : w \in {StrV("x"), StrV("v1")}}
    \cup {[form |-> "dict", key |-> k, val |-> w] : k \in {"answer", "other"}, w \in {StrV("x"), StrV("v1")}}

\* the value of a tool_arguments object itself
ArgumentsValue(args) == IF args.form = "dict" THEN DictV(args.val.v) ELSE args.val

\* lines 782-797: the local final_answer computed for a call of the final_answer tool
ToolFinalAnswer(args, st) ==
    LET answer == IF args.form = "dict"
                  THEN IF args.key = "answer" THEN args.val ELSE ArgumentsValue(args)
                  ELSE ArgumentsValue(args)
    IN IF IsStr(answer) /\ answer.v \in DOMAIN st THEN st[answer.v] ELSE answer

\* the method body ends after the final_answer branch: no return statement is reached
ToolStepReturn(tool_name, local_final) == NoneV

\* every way one call of ToolCallingAgent.step can end, from agent state st
ToolStep(st) ==
    \* model.get_tool_call raises
    {StepOutcome("AgentGenerationError", FALSE, "None", FALSE, NoneV, NoneV, st, <<>>, "None", NoArgs, NoneV)}
    \cup
    \* formatting the tool arguments for the console raises, outside every try block
    {StepOutcome(OtherExc, FALSE, tn, FALSE, NoneV, NoneV, st, <<>>, tn, args, NoneV) :
        tn \in ToolNames, args \in ToolArguments}
    \cup
    {StepOutcome(NoExc, FALSE, tn, FALSE, NoneV,
                 ToolStepReturn(tn, IF tn = "final_answer" THEN ToolFinalAnswer(args, st) ELSE NoneV),
                 st, <<>>, tn, args,
                 IF tn = "final_answer" THEN ToolFinalAnswer(args, st) ELSE NoneV) :
        tn \in ToolNames, args \in ToolArguments}

\* self.step of the agent's class
StepOutcomes(v, st) == IF v = "CodeAgent" THEN CodeStep(st) ELSE ToolStep(st)

LastOf(v, o, step_log) ==
    [variant |-> v, tool_name |-> o.tool_name, arguments |-> o.arguments, code |-> o.code,
     output |-> o.output, exc |-> o.exc, ret |-> o.ret, local_final |-> o.local_final,
     step_log |-> step_log]

\* ------------------------------------------------------------------ the loop
\* variant of the loop test with an off-by-one bound
LoopGuardOffByOne(fa, it, n) == IsNone(fa) /\ it <= n

\* while final_answer is None and iteration < self.max_iterations
LoopGuard(fa, it, n) == IsNone(fa) /\ it < n

\* variant of the test that forgets final_answer
FallbackGuardIterationOnly(fa, it, n) == it = n

\* if final_answer is None and iteration == self.max_iterations
FallbackGuard(fa, it, n) == IsNone(fa) /\ it = n

\* variant of the handler that catches one subclass only
CatchesParsingOnly(e) == e = "AgentParsingError"

\* variant of the handler that catches every exception
CatchesEverything(e) == TRUE

\* except AgentError as e
CatchesTaxonomy(e) == e \in AgentErrorKinds

\* self.planning_interval is not None and iteration % self.planning_interval == 0
PlanningTriggered(pi, it) == pi # 0 /\ it % pi = 0

\* the name step_log is bound once the loop body has run
StepLogBound(it) == it > 0

\* variant of the skeleton that does not record the loop counter
NewStepLogNoIteration(it) == [ActionStep(0) EXCEPT !.start_time = TRUE]

\* step_log = ActionStep(iteration=iteration, start_time=step_start_time)
NewStepLog(it) == [ActionStep(it) EXCEPT !.start_time = TRUE]

\* the step_callbacks argument of __init__
UserCallbacks == <<"user_callback">>

\* variant of the registration in which the monitor callback comes first
StepCallbacksMonitorFirst == <<"update_metrics">> \o UserCallbacks

\* self.step_callbacks: the callbacks given to __init__, then monitor.update_metrics
StepCallbacks == Append(UserCallbacks, "update_metrics")

\* an observable event of a run: what happened, the value of the loop counter at that time,
\* the callback invoked (for a callback event) and the log index of the step concerned
Ev(e, it, cb, idx) == [ev |-> e, it |-> it, cb |-> cb, idx |-> idx]

\* for callback in self.step_callbacks: callback(step_log)
CallbackEvents(it, idx) ==
    [j \in 1..Len(StepCallbacks) |-> Ev("callback", it, StepCallbacks[j], idx)]

\* the executor was called by this step: CodeAgent.step sets tool_call just before it calls
\* the executor; ToolCallingAgent.step ends without calling any tool
Dispatched(v, o) == v = "CodeAgent" /\ o.tool_call # "None"

\* variant of the call that always asks for an initial plan
PlanVariantAlwaysInitial(it) == "initial"

\* self.planning_step(task, is_first_step=(iteration == 0), iteration=iteration): the branch
\* of planning_step that is taken
PlanVariant(it) == IF it = 0 THEN "initial" ELSE "update"

\* the events of one pass through the loop body, in the order of the statements; a planning
\* event carries the branch of planning_step in place of a callback
LoopEvents(s, it, trig, stepped, dispatched, idx) ==
    (IF trig THEN <<Ev("planning", it, PlanVariant(it), 0)>> ELSE <<>>)
    \o (IF stepped THEN <<Ev("model", it, "", 0)>> ELSE <<>>)
    \o (IF dispatched THEN <<Ev("dispatch", it, "", 0)>> ELSE <<>>)
    \o <<Ev("append", it, "", idx)>>
    \o CallbackEvents(it, idx)
    \o (IF s THEN <<Ev("yield", it, "", idx)>> ELSE <<>>)

\* One pass through the body of the while loop (try / except AgentError / finally) of
\* stream_run (s = TRUE) or direct_run (s = FALSE), from the current state.
\* plan_ok: the model calls of planning_step return; o: how self.step ends.
LoopStep(s, plan_ok, o) ==
    LET trig == PlanningTriggered(planning_interval, iteration)
        logs1 == IF trig /\ plan_ok THEN Append(logs, PlanningStep) ELSE logs
        stepped == ~trig \/ plan_ok
        exc == IF stepped THEN o.exc ELSE OtherExc
        skeleton == NewStepLog(iteration)
        filled == IF stepped
                  THEN [skeleton EXCEPT !.llm_output = o.llm_output, !.tool_call = o.tool_call,
                                        !.observations = o.observations,
                                        !.action_output = o.action_output]
                  ELSE skeleton
        caught == IF exc # NoExc /\ CatchesTaxonomy(exc)
                  THEN [filled EXCEPT !.error = exc] ELSE filled
        step_log == [caught EXCEPT !.end_time = TRUE, !.duration = Elapsed]
        escapes == exc # NoExc /\ ~CatchesTaxonomy(exc)
    IN [logs |-> Append(logs1, step_log),
        state |-> IF stepped THEN o.st ELSE state,
        final_answer |-> IF stepped /\ exc = NoExc THEN o.ret ELSE final_answer,
        iteration |-> iteration + 1,
        pc |-> IF escapes THEN "raised" ELSE "loop",
        raised |-> IF escapes THEN exc ELSE raised,
        events |-> LoopEvents(s, iteration, trig, stepped, stepped /\ Dispatched(variant, o),
                              Len(logs1) + 1),
        hrec |-> [iteration |-> iteration, planned |-> trig /\ plan_ok,
                  stepped |-> stepped, exc |-> exc,
                  ret |-> IF stepped /\ exc = NoExc THEN o.ret ELSE NoneV,
                  idx |-> Len(logs1) + 1,
                  input_len |-> IF stepped THEN Len(logs1) ELSE 0],
        last |-> IF stepped THEN LastOf(variant, o, skeleton) ELSE last]

LoopBody(plan_ok, o) ==
    \E r \in {LoopStep(stream, plan_ok, o)} :
       /\ logs' = r.logs
       /\ state' = r.state
       /\ final_answer' = r.final_answer
       /\ iteration' = r.iteration
       /\ pc' = r.pc
       /\ raised' = r.raised
       /\ events' = events \o r.events
       /\ hist' = Append(hist, r.hrec)
       /\ last' = r.last
       /\ UNCHANGED <<variant, max_iterations, planning_interval, stream, reset, single_step, result,
                      len0, fb>>
       /\ UNCHANGED aux

\* one iteration of the while loop of direct_run
DirectLoop ==
    /\ pc = "loop" /\ ~stream
    /\ LoopGuard(final_answer, iteration, max_iterations)
    /\ \E plan_ok \in BOOLEAN, o \in StepOutcomes(variant, state) : LoopBody(plan_ok, o)

\* one iteration of the while loop of stream_run, up to and including its yield
StreamLoop ==
    /\ pc = "loop" /\ stream
    /\ LoopGuard(final_answer, iteration, max_iterations)
    /\ \E plan_ok \in BOOLEAN, o \in StepOutcomes(variant, state) : LoopBody(plan_ok, o)

\* ------------------------------------------------------------------ after the loop
\* provide_final_answer: the model answers, or its failure becomes an error string
SynthAnswers == {StrV("synth")}
ErrorString == StrV("Error in generating final LLM output")
ProvideFinalAnswer == SynthAnswers \cup {ErrorString}

\* variant of the fallback step that is given a start time
MaxIterationsStepStarted ==
    [ActionStep(-1) EXCEPT !.error = "AgentMaxIterationsError", !.start_time = TRUE]

\* final_step_log = ActionStep(error=AgentMaxIterationsError(error_message))
MaxIterationsStep == [ActionStep(-1) EXCEPT !.error = "AgentMaxIterationsError"]

\* The code after the while loop of stream_run (s = TRUE) or direct_run (s = FALSE), from the
\* current state: the max-iterations fallback when its test holds, then the final answer.
\* answer: what provide_final_answer returns.
AfterLoop(s, answer) ==
    IF FallbackGuard(final_answer, iteration, max_iterations)
    THEN LET idx == Len(logs) + 1
             answered == [MaxIterationsStep EXCEPT !.action_output = answer]
             \* stream_run: final_step_log.duration = step_log.end_time - step_start_time
             bound == StepLogBound(iteration)
             final_step_log ==
                 IF s THEN [answered EXCEPT !.end_time = TRUE,
                                            !.duration = IF bound THEN LastLoopStepElapsed
                                                         ELSE NoDuration]
                 ELSE [answered EXCEPT !.duration = ZeroDuration]
             completes == ~s \/ bound
         IN [logs |-> Append(logs, final_step_log),
             final_answer |-> answer,
             fb |-> [triggered |-> TRUE, idx |-> idx, input_len |-> idx,
                     synth |-> IF answer = ErrorString THEN "error_string" ELSE "model"],
             result |-> IF completes THEN handle_agent_output_types(answer) ELSE result,
             pc |-> IF completes THEN "returned" ELSE "raised",
             raised |-> IF completes THEN raised ELSE UnboundLocal,
             events |-> <<Ev("append", iteration, "", idx), Ev("synthesis", iteration, "", idx)>>
                        \o (IF completes THEN CallbackEvents(iteration, idx) ELSE <<>>)
                        \o (IF completes /\ s
                            THEN <<Ev("yield", iteration, "", idx), Ev("yield_final", iteration, "", 0)>>
                            ELSE <<>>)]
    ELSE [logs |-> logs,
          final_answer |-> final_answer,
          fb |-> fb,
          result |-> handle_agent_output_types(final_answer),
          pc |-> "returned",
          raised |-> raised,
          events |-> IF s THEN <<Ev("yield_final", iteration, "", 0)>> ELSE <<>>]

Finish(answer) ==
    \E r \in {AfterLoop(stream, answer)} :
       /\ logs' = r.logs
       /\ final_answer' = r.final_answer
       /\ fb' = r.fb
       /\ result' = r.result
       /\ pc' = r.pc
       /\ raised' = r.raised
       /\ events' = events \o r.events
       /\ UNCHANGED <<variant, max_iterations, planning_interval, state, stream, reset, single_step,
                      iteration, len0, hist, last>>
       /\ UNCHANGED aux

\* direct_run after the loop: the fallback, then the return
DirectFinish ==
    /\ pc = "loop" /\ ~stream
    /\ ~LoopGuard(final_answer, iteration, max_iterations)
    /\ \E answer \in ProvideFinalAnswer : Finish(answer)

\* stream_run after the loop: the fallback, then the last yield
StreamFinish ==
    /\ pc = "loop" /\ stream
    /\ ~LoopGuard(final_answer, iteration, max_iterations)
    /\ \E answer \in ProvideFinalAnswer : Finish(answer)

\* run, lines 497-500: the skeleton handed to self.step, stamped before the step runs
SingleStepLog ==
    [ActionStep(-1) EXCEPT !.start_time = TRUE, !.end_time = TRUE, !.duration = Elapsed]

\* variant of the single-step branch that records the step in the log, as the loop does
SingleStepAppending ==
    /\ pc = "single"
    /\ \E o \in StepOutcomes(variant, state) :
        /\ state' = o.st
        /\ last' = LastOf(variant, o, SingleStepLog)
        /\ logs' = Append(logs, SingleStepLog)
        /\ events' = <<Ev("model", -1, "", 0)>>
                      \o (IF Dispatched(variant, o) THEN <<Ev("dispatch", -1, "", 0)>> ELSE <<>>)
        /\ IF o.exc = NoExc
           THEN pc' = "returned" /\ result' = o.ret /\ raised' = raised
           ELSE pc' = "raised" /\ raised' = o.exc /\ result' = result
    /\ UNCHANGED <<variant, max_iterations, planning_interval, stream, reset, single_step, iteration,
                   final_answer, len0, hist, fb>>
    /\ UNCHANGED aux

\* run with single_step: one call of self.step on a skeleton that is not logged
SingleStep ==
    /\ pc = "single"
    /\ \E o \in StepOutcomes(variant, state) :
        /\ state' = o.st
        /\ last' = LastOf(variant, o, SingleStepLog)
        /\ events' = <<Ev("model", -1, "", 0)>>
                      \o (IF Dispatched(variant, o) THEN <<Ev("dispatch", -1, "", 0)>> ELSE <<>>)
        /\ IF o.exc = NoExc
           THEN pc' = "returned" /\ result' = o.ret /\ raised' = raised
           ELSE pc' = "raised" /\ raised' = o.exc /\ result' = result
    /\ UNCHANGED <<variant, max_iterations, planning_interval, logs, stream, reset, single_step, iteration,
                   final_answer, len0, hist, fb>>
    /\ UNCHANGED aux

Next ==
    \/ Run
    \/ DirectLoop
    \/ StreamLoop
    \/ DirectFinish
    \/ StreamFinish
    \/ SingleStep

Spec == Init /\ [][Next]_vars

\* one run of a new agent
FirstRunNext ==
    \/ FirstRun
    \/ DirectLoop
    \/ StreamLoop
    \/ DirectFinish
    \/ StreamFinish
    \/ SingleStep

\* One run of a new agent, run to completion: the loop and the code after it are sequential
\* code that goes on once run has been called; in stream mode the caller is taken to exhaust
\* the generator.
FirstRunFair ==
    /\ Init /\ [][FirstRunNext]_vars
    /\ WF_vars(DirectLoop) /\ WF_vars(StreamLoop)
    /\ WF_vars(DirectFinish) /\ WF_vars(StreamFinish)
    /\ WF_vars(SingleStep)

\* ------------------------------------------------------------------ helpers of the properties
RunOver == pc \in {"returned", "raised"}
\* index in logs of the TaskStep of the current run
TaskIdx == IF reset \/ len0 = 0 THEN 2 ELSE len0 + 1
\* indexes in logs of the ActionSteps appended by the current run
OwnActionIdx == {i \in (TaskIdx + 1)..Len(logs) : logs[i].kind = "ActionStep"}
OwnMaxIterIdx == {i \in OwnActionIdx : logs[i].error = "AgentMaxIterationsError"}
OwnLoopIdx == OwnActionIdx \ OwnMaxIterIdx
\* no step of the current run gave a final value or raised outside the taxonomy
NeverFinal ==
    \A k \in 1..Len(hist) : hist[k].exc \in AgentErrorKinds \cup {NoExc} /\ IsNone(hist[k].ret)

\* C1 (state part): a finished multi-step run whose steps never gave a final answer has
\* recorded exactly max_iterations loop ActionSteps, numbered 0..max_iterations-1, followed
\* by exactly one ActionStep carrying AgentMaxIterationsError, which is the last step of the log
C1_Counts ==
    (RunOver /\ ~single_step /\ NeverFinal) =>
        /\ Cardinality(OwnLoopIdx) = max_iterations
        /\ {logs[i].iteration : i \in OwnLoopIdx} = 0..(max_iterations - 1)
        /\ OwnMaxIterIdx = {Len(logs)}

\* C1: every multi-step run terminates, and if its steps never yield a final answer it has then
\* recorded exactly max_iterations loop ActionSteps followed by exactly one fallback ActionStep
\* carrying AgentMaxIterationsError
C1_TerminatesWithFallback ==
    /\ [](C1_Counts)
    /\ ((pc = "loop") ~> (pc \in {"returned", "raised"}))

C1_Witness ==
    /\ RunOver /\ ~single_step /\ NeverFinal
    /\ max_iterations = 2 /\ Len(hist) = 2
    /\ hist[1].exc \in AgentErrorKinds /\ hist[2].exc = NoExc
    /\ fb.triggered

\* C2: a taxonomy error raised in loop iteration i is stored in the error field of that
\* iteration's ActionStep, nothing reaches the caller, and when i+1 < max_iterations the loop
\* goes on with iteration i+1, whose model input is built from a log containing the errored step
C2_TaxonomyErrorRecorded ==
    \A k \in 1..Len(hist) :
        hist[k].exc \in AgentErrorKinds =>
            /\ logs[hist[k].idx].kind = "ActionStep"
            /\ logs[hist[k].idx].iteration = hist[k].iteration
            /\ logs[hist[k].idx].error = hist[k].exc
            /\ k = Len(hist) =>
                /\ raised = NoExc
                /\ hist[k].iteration + 1 < max_iterations =>
                    /\ pc = "loop"
                    /\ iteration = hist[k].iteration + 1
                    /\ LoopGuard(final_answer, iteration, max_iterations)
            /\ k < Len(hist) =>
                /\ hist[k + 1].iteration = hist[k].iteration + 1
                /\ hist[k + 1].stepped => hist[k + 1].input_len >= hist[k].idx

C2_Witness ==
    /\ Len(hist) = 2
    /\ hist[1].exc = "AgentExecutionError"
    /\ hist[2].stepped /\ hist[2].input_len >= hist[1].idx
    /\ logs[hist[1].idx].error = "AgentExecutionError"

\* C3: an exception outside the taxonomy raised by step() or by planning in loop iteration i
\* reaches the caller of run: that iteration is the last one, no fallback step is appended
\* and no final answer is produced
C3_OtherExceptionAborts ==
    \A k \in 1..Len(hist) :
        (hist[k].exc # NoExc /\ hist[k].exc \notin AgentErrorKinds) =>
            /\ k = Len(hist)
            /\ pc = "raised"
            /\ raised = hist[k].exc
            /\ ~fb.triggered
            /\ OwnMaxIterIdx = {}
            /\ IsNone(result)
            /\ IsNone(final_answer)

C3_Witness ==
    /\ Len(hist) = 2
    /\ hist[2].exc = OtherExc
    /\ hist[2].stepped
    /\ max_iterations > 2 \/ ~hist[1].stepped \/ hist[1].exc # OtherExc
    /\ pc = "raised"

C3_WitnessPlanning ==
    /\ Len(hist) >= 1
    /\ ~hist[Len(hist)].stepped
    /\ pc = "raised"

\* C4 as stated: a run that exhausts its iteration budget never raises: once the fallback has
\* been entered the run returns the answer of provide_final_answer (the synthesized answer or
\* the error string)
C4_FallbackNeverRaises ==
    fb.triggered =>
        /\ pc = "returned"
        /\ raised = NoExc
        /\ \E a \in ProvideFinalAnswer : SameValue(result, a)

\* result of the run is the answer the fallback produced
ResultIsFallbackAnswer ==
    /\ \E a \in ProvideFinalAnswer : SameValue(result, a)
    /\ SameValue(result, logs[Len(logs)].action_output)

\* C5: a multi-step run that returns ends in exactly one of two ways: (a) its last loop step
\* returned a non-null value, which is the result, and the run appended no
\* AgentMaxIterationsError step; (b) no loop step returned a value, exactly one
\* AgentMaxIterationsError step was appended, after the last loop step and before the log was
\* read for the synthesis call, and the result is the synthesized answer, stored as that
\* step's action_output
C5_FinalOrFallback ==
    (pc = "returned" /\ ~single_step) =>
        LET a == /\ Len(hist) >= 1
                 /\ ~IsNone(hist[Len(hist)].ret)
                 /\ \A k \in 1..(Len(hist) - 1) : IsNone(hist[k].ret)
                 /\ SameValue(result, hist[Len(hist)].ret)
                 /\ OwnMaxIterIdx = {}
                 /\ ~fb.triggered
            b == /\ \A k \in 1..Len(hist) : IsNone(hist[k].ret)
                 /\ fb.triggered
                 /\ OwnMaxIterIdx = {fb.idx}
                 /\ fb.idx = Len(logs)
                 /\ \A i \in OwnLoopIdx : i < fb.idx
                 /\ fb.input_len >= fb.idx
                 /\ ResultIsFallbackAnswer
        IN (a \/ b) /\ ~(a /\ b)

C5_WitnessFinal ==
    /\ pc = "returned" /\ ~single_step
    /\ Len(hist) = 2 /\ max_iterations = 2
    /\ ~IsNone(hist[2].ret)
    /\ OwnMaxIterIdx = {}

C5_WitnessFallback ==
    /\ pc = "returned" /\ ~single_step
    /\ Len(hist) = 2 /\ fb.triggered /\ fb.synth = "model"
    /\ logs[Len(logs)].error = "AgentMaxIterationsError"

\* some line of the code action begins with final_answer
HasFinalAnswerLine(code) == \E i \in 1..Len(code) : StartsWithFinalAnswer(code[i])

\* the last call of step() was made by the last loop iteration of a multi-step run
LastStepInLoop == ~single_step /\ Len(hist) >= 1 /\ hist[Len(hist)].stepped

\* C6: code-writing variant: when the code action has a line beginning with final_answer and
\* the executor returns a non-null output v, the step records action_output = v and returns v,
\* and the run returns v at that iteration: no further iteration, no fallback step
C6_CodeFinalAnswerEndsRun ==
    (/\ last.variant = "CodeAgent" /\ last.exc = NoExc
     /\ HasFinalAnswerLine(last.code) /\ ~IsNone(last.output)) =>
        /\ last.ret = last.output
        /\ LastStepInLoop =>
            /\ logs[hist[Len(hist)].idx].action_output = last.output
            /\ final_answer = last.output
            /\ ~LoopGuard(final_answer, iteration, max_iterations)
            /\ ~FallbackGuard(final_answer, iteration, max_iterations)
            /\ ~fb.triggered
            /\ OwnMaxIterIdx = {}
            /\ pc \in {"loop", "returned"}
            /\ pc = "returned" => SameValue(result, last.output)
        /\ single_step => (pc = "returned" /\ result = last.output)

C6_Witness ==
    /\ last.variant = "CodeAgent" /\ last.exc = NoExc
    /\ last.code = <<StmtLine, FinalLine>> /\ last.output = IntV("4")
    /\ LastStepInLoop /\ Len(hist) = 1 /\ max_iterations = 2
    /\ pc = "returned" /\ result = IntV("4")

\* C7 as stated: code-writing variant: a step whose code action has no line beginning with
\* final_answer returns None whatever the executor's output, and the loop goes on
C7_NoFinalLineNotFinal ==
    (/\ last.variant = "CodeAgent" /\ last.exc = NoExc
     /\ ~HasFinalAnswerLine(last.code)) =>
        /\ IsNone(last.ret)
        /\ LastStepInLoop => IsNone(final_answer)

\* C8 as stated: tool-calling variant: a call of the final_answer tool makes step() return
\* the call's argument (its answer field for a mapping with that key), or the bound state
\* value when that is a string equal to a state key, and the run ends at that iteration
C8_ToolFinalAnswerEndsRun ==
    (/\ last.variant = "ToolCallingAgent" /\ last.exc = NoExc
     /\ last.tool_name = "final_answer") =>
        /\ last.ret = ToolFinalAnswer(last.arguments, state)
        /\ LastStepInLoop =>
            /\ final_answer = last.ret
            /\ ~LoopGuard(final_answer, iteration, max_iterations)

\* number of PlanningSteps the current run appended
PlanningSteps == Cardinality({k \in 1..Len(hist) : hist[k].planned})
FallbackSteps == IF fb.triggered THEN 1 ELSE 0

\* C9 as stated: after any run that returns, len(log) = 1 + 1 + iterations executed
\* + (1 if the fallback was triggered) + planning steps triggered
C9_LogLength ==
    pc = "returned" => Len(logs) = 1 + 1 + Len(hist) + FallbackSteps + PlanningSteps

\* C9 amended: after a run that returns, len(log) = B + 1 + iterations executed
\* + (1 if the fallback was triggered) + planning steps triggered, where B = 1 when the run
\* was started with reset=True or on an empty log, and B = the length of the log before the
\* run when it was started with reset=False on a non-empty log
C9_LogLengthFromBase ==
    pc = "returned" =>
        Len(logs) = (IF reset \/ len0 = 0 THEN 1 ELSE len0)
                    + 1 + Len(hist) + FallbackSteps + PlanningSteps

C9_Witness ==
    /\ pc = "returned" /\ ~single_step
    /\ ~reset /\ len0 = 2
    /\ Len(hist) = 2 /\ PlanningSteps >= 1 /\ fb.triggered
    /\ Len(logs) > 1 + 1 + Len(hist) + FallbackSteps + PlanningSteps

C9_WitnessReset ==
    /\ pc = "returned" /\ ~single_step
    /\ reset /\ len0 > 2
    /\ Len(hist) = 2 /\ PlanningSteps = 1

SystemPromptOnlyAtIndex0 ==
    /\ Len(logs) >= 1
    /\ logs[1].kind = "SystemPromptStep"
    /\ \A i \in 2..Len(logs) : logs[i].kind # "SystemPromptStep"

\* C10 as stated: at any time, construction included, the log holds a SystemPromptStep at
\* index 0 and none at any other index
C10_SystemPromptAlways == SystemPromptOnlyAtIndex0

\* C10 amended: from the first call of run on, during a run and after any sequence of runs
\* with reset true or false, the log holds a SystemPromptStep at index 0 and none at any
\* other index; after construction and until the first call of run the log is empty
C10_SystemPromptOnceRun ==
    IF pc = "idle" THEN logs = <<>> ELSE SystemPromptOnlyAtIndex0

C10_Witness ==
    /\ pc = "loop" /\ ~reset /\ len0 = 2
    /\ Len(logs) >= 4
    /\ SystemPromptOnlyAtIndex0

\* ------------------------------------------------------------------ C11
\* the step from the current state is a call of run
RunCalled == pc \in {"idle", "returned", "raised"}

\* every entry of old from index lo on is at the same index of new, unchanged
KeptFrom(old, new, lo) ==
    /\ Len(new) >= Len(old)
    /\ \A i \in lo..Len(old) : new[i] = old[i]

CallbackCount(cb, idx) ==
    Cardinality({j \in 1..Len(events) :
                    events[j].ev = "callback" /\ events[j].cb = cb /\ events[j].idx = idx})

\* every registered callback was invoked exactly once with the step at log index idx
EveryCallbackOnce(idx) ==
    \A c \in 1..Len(StepCallbacks) : CallbackCount(StepCallbacks[c], idx) = 1

\* number of ActionSteps appended by loop iteration it
AppendCount(it) ==
    Cardinality({j \in 1..Len(events) : events[j].ev = "append" /\ events[j].it = it})

\* C12 as stated: for every loop iteration executed, whatever its outcome, exactly one
\* ActionStep with end_time and duration set has been appended and every registered step
\* callback has been invoked exactly once with it; and once the fallback has been entered
\* every registered callback has been invoked exactly once with the fallback step
C12_EveryStepReported ==
    /\ \A k \in 1..Len(hist) :
        /\ logs[hist[k].idx].kind = "ActionStep"
        /\ logs[hist[k].idx].iteration = hist[k].iteration
        /\ logs[hist[k].idx].end_time
        /\ logs[hist[k].idx].duration # NoDuration
        /\ AppendCount(hist[k].iteration) = 1
        /\ EveryCallbackOnce(hist[k].idx)
    /\ fb.triggered => EveryCallbackOnce(fb.idx)

\* ------------------------------------------------------------------ C13
\* place of an event kind in the order planning, model call, action dispatch, append,
\* callbacks (and, in stream mode, the yield of the step)
Rank(e) ==
    CASE e = "planning" -> 1
      [] e = "model" -> 2
      [] e = "dispatch" -> 3
      [] e = "append" -> 4
      [] e = "callback" -> 5
      [] e = "yield" -> 6
      [] OTHER -> 7

\* positions in events of the events of the loop iterations executed so far
LoopEventIdx ==
    {j \in 1..Len(events) : \E k \in 1..Len(hist) : hist[k].iteration = events[j].it}

IsCallbackOf(e, it) == e.ev = "callback" /\ e.it = it

\* the callbacks invoked in loop iteration it, in the order of their invocation
CallbacksOf(it) ==
    LET evs == SelectSeq(events, LAMBDA e : IsCallbackOf(e, it))
    IN [j \in 1..Len(evs) |-> evs[j].cb]

\* the events of the loop iterations executed so far, in the order they happened
InLoop(e) == \E k \in 1..Len(hist) : hist[k].iteration = e.it

EventsOfLoop == SelectSeq(events, InLoop)

\* C13: the events of one loop iteration occur in the order planning (if triggered), model
\* call, action dispatch, append of the ActionStep, callbacks, each at most once except the
\* callbacks, which are invoked in registration order with the monitor callback last; all
\* events of iteration i precede all events of iteration i+1. Stated on consecutive events:
\* the iteration never decreases and, within an iteration, the place in the order strictly
\* increases until the callbacks, which are exactly the registered ones in order
C13_FixedOrder ==
    \A evs \in {EventsOfLoop} :
        /\ \A j \in 1..(Len(evs) - 1) :
            /\ evs[j].it <= evs[j + 1].it
            /\ evs[j].it = evs[j + 1].it =>
                \/ evs[j].ev = "callback" /\ evs[j + 1].ev = "callback"
                \/ Rank(evs[j].ev) < Rank(evs[j + 1].ev)
        /\ \A k \in 1..Len(hist) :
            /\ CallbacksOf(hist[k].iteration) = Append(UserCallbacks, "update_metrics")
            /\ hist[k].planned =>
                \E j \in 1..Len(evs) :
                    evs[j].ev = "planning" /\ evs[j].it = hist[k].iteration
            /\ hist[k].stepped =>
                \E j \in 1..Len(evs) :
                    evs[j].ev = "model" /\ evs[j].it = hist[k].iteration

C13_Witness ==
    /\ Len(hist) = 2 /\ hist[1].planned /\ hist[1].stepped /\ hist[2].stepped
    /\ \E j \in LoopEventIdx : events[j].ev = "dispatch" /\ events[j].it = 0
    /\ \E j \in LoopEventIdx : events[j].ev = "dispatch" /\ events[j].it = 1
    /\ \E j \in LoopEventIdx : events[j].ev = "callback" /\ events[j].it = 1

\* ------------------------------------------------------------------ C14
\* the k-th ActionStep the loop of the current run appended carries iteration k-1
LoopIterationsInOrder ==
    \A i \in OwnLoopIdx :
        logs[i].iteration = Cardinality({j \in OwnLoopIdx : j < i})

\* C14: within one run the iteration fields of the ActionSteps appended by the loop are
\* 0, 1, 2, ... in log order, and the loop counter never decreases inside a run: it goes
\* up by one per loop iteration and is back at 0 only through a new call of run
C14_IterationsIncrease ==
    [][ /\ LoopIterationsInOrder'
        /\ iteration' < iteration => RunCalled
        /\ ~RunCalled => iteration' \in {iteration, iteration + 1}
        /\ RunCalled => iteration' = 0
      ]_vars

C14_Witness ==
    /\ pc = "loop" /\ ~reset /\ len0 = 2
    /\ Len(hist) = 2 /\ iteration = 2 /\ hist[2].planned
    /\ logs[hist[1].idx].iteration = 0 /\ logs[hist[2].idx].iteration = 1

\* ------------------------------------------------------------------ C15
\* same log as far as step kinds, iteration numbers, errors, tool calls and action outputs go
SameLog(a, b) ==
    /\ Len(a) = Len(b)
    /\ \A i \in 1..Len(a) :
        /\ a[i].kind = b[i].kind
        /\ a[i].iteration = b[i].iteration
        /\ a[i].error = b[i].error
        /\ a[i].tool_call = b[i].tool_call
        /\ a[i].action_output = b[i].action_output

IsYield(e) == e.ev \in {"yield", "yield_final"}

\* what a sequence of events yields: the log index of each yielded step, 0 for the final answer
Yields(evs) ==
    LET ys == SelectSeq(evs, IsYield)
    IN [j \in 1..Len(ys) |-> ys[j].idx]

\* C15 as stated: from every state of a multi-step run, the next pass through the loop body
\* and the code after the loop give, for the same planning, step and synthesis outcomes, the
\* same log, agent state, counter, final answer, result and raised exception in stream mode as
\* in direct mode; and in stream mode the items yielded so far are exactly the ActionSteps the
\* run appended, in log order, followed by the final answer once the run has ended
C15_StreamEqualsDirect ==
    /\ (pc = "loop" /\ LoopGuard(final_answer, iteration, max_iterations)) =>
        \A plan_ok \in BOOLEAN, o \in StepOutcomes(variant, state) :
            LET a == LoopStep(TRUE, plan_ok, o)
                b == LoopStep(FALSE, plan_ok, o)
            IN /\ SameLog(a.logs, b.logs)
               /\ a.state = b.state /\ a.iteration = b.iteration
               /\ a.final_answer = b.final_answer
               /\ a.pc = b.pc /\ a.raised = b.raised
               /\ Yields(a.events) = <<Len(a.logs)>>
    /\ (pc = "loop" /\ ~LoopGuard(final_answer, iteration, max_iterations)) =>
        \A answer \in ProvideFinalAnswer :
            LET a == AfterLoop(TRUE, answer)
                b == AfterLoop(FALSE, answer)
            IN /\ SameLog(a.logs, b.logs)
               /\ a.final_answer = b.final_answer
               /\ a.result = b.result
               /\ a.pc = b.pc /\ a.raised = b.raised
    /\ (stream /\ ~single_step /\ pc # "idle") =>
        LET y == Yields(events)
            n == Cardinality(OwnActionIdx)
        IN /\ Len(y) = n + (IF pc = "returned" THEN 1 ELSE 0)
           /\ {y[j] : j \in 1..n} = OwnActionIdx
           /\ \A j \in 1..(n - 1) : y[j] < y[j + 1]
           /\ pc = "returned" => y[Len(y)] = 0

\* ------------------------------------------------------------------ C16
\* the model callable failed in the k-th loop iteration of the current run: in the action
\* step (the step raised AgentGenerationError) or in planning_step (planning did not return)
ModelFailedIn(k) == hist[k].exc = "AgentGenerationError" \/ ~hist[k].stepped

\* C16 as stated: every failure of the model callable in a loop iteration, in the action step
\* of either variant or in planning, is recorded as an AgentGenerationError on that
\* iteration's ActionStep and does not abort the run
C16_ModelFailureRecorded ==
    \A k \in 1..Len(hist) :
        ModelFailedIn(k) =>
            /\ logs[hist[k].idx].kind = "ActionStep"
            /\ logs[hist[k].idx].error = "AgentGenerationError"
            /\ k = Len(hist) => (pc # "raised" /\ raised = NoExc)

\* ------------------------------------------------------------------ C28
\* positions in events of the calls of planning_step made by loop iteration it
PlanningsOf(it) ==
    {j \in 1..Len(events) : events[j].ev = "planning" /\ events[j].it = it}

\* log index of the step appended just before loop iteration k of the current run
IdxBefore(k) == IF k = 1 THEN TaskIdx ELSE hist[k - 1].idx

\* C28: with planning_interval = k configured, planning runs in loop iteration i iff
\* i mod k = 0, once and before the action model call of that iteration; a successful
\* planning appends exactly one PlanningStep, placed just before the ActionStep of the
\* iteration, and an iteration without a successful planning appends none; the initial-plan
\* variant is used iff i = 0, the plan-update variant otherwise; with no planning_interval
\* configured planning never runs and the log never holds a PlanningStep
C28_PlanningSchedule ==
    /\ \A k \in 1..Len(hist) :
        LET i == hist[k].iteration
        IN /\ planning_interval # 0 =>
                (PlanningsOf(i) # {} <=> i % planning_interval = 0)
           /\ Cardinality(PlanningsOf(i)) <= 1
           /\ \A j \in PlanningsOf(i) :
                /\ events[j].cb = (IF i = 0 THEN "initial" ELSE "update")
                /\ \A m \in 1..Len(events) :
                    (events[m].ev = "model" /\ events[m].it = i) => j < m
           /\ hist[k].planned => PlanningsOf(i) # {}
           /\ logs[hist[k].idx].kind = "ActionStep" /\ logs[hist[k].idx].iteration = i
           /\ IF hist[k].planned
              THEN /\ hist[k].idx = IdxBefore(k) + 2
                   /\ logs[hist[k].idx - 1].kind = "PlanningStep"
              ELSE hist[k].idx = IdxBefore(k) + 1
    /\ planning_interval = 0 =>
        /\ \A j \in 1..Len(events) : events[j].ev # "planning"
        /\ \A j \in 1..Len(logs) : logs[j].kind # "PlanningStep"

C28_Witness ==
    /\ planning_interval = 1 /\ ~single_step /\ ~reset /\ len0 = 2
    /\ Len(hist) = 2 /\ hist[1].planned /\ hist[2].planned /\ hist[2].stepped
    /\ \E j \in PlanningsOf(0) : events[j].cb = "initial"
    /\ \E j \in PlanningsOf(1) : events[j].cb = "update"
    /\ logs[hist[2].idx - 1].kind = "PlanningStep"
    /\ Len(logs) = 7

C28_WitnessSkipped ==
    /\ planning_interval = 2 /\ Len(hist) = 2
    /\ hist[1].planned /\ ~hist[2].planned /\ hist[2].stepped
    /\ PlanningsOf(0) # {} /\ PlanningsOf(1) = {}
    /\ hist[2].idx = hist[1].idx + 1

\* ------------------------------------------------------------------ C29
\* duration is end_time - start_time when both are set
WellTimed(step) == (step.start_time /\ step.end_time) => step.duration = Elapsed

\* C29: every ActionStep of the log (the steps appended by the loop and the fallback step)
\* and the skeleton handed to the step of a single-step run, when its start_time and its
\* end_time are both set, has duration = end_time - start_time
C29_DurationIsElapsed ==
    /\ \A j \in 1..Len(logs) : logs[j].kind = "ActionStep" => WellTimed(logs[j])
    /\ last.step_log.kind = "ActionStep" => WellTimed(last.step_log)

C29_Witness ==
    /\ pc = "returned" /\ stream /\ fb.triggered /\ Len(hist) = 2
    /\ \A k \in 1..2 :
        /\ logs[hist[k].idx].start_time /\ logs[hist[k].idx].end_time
        /\ logs[hist[k].idx].duration = Elapsed
    /\ logs[fb.idx].end_time /\ ~logs[fb.idx].start_time
    /\ logs[fb.idx].duration = LastLoopStepElapsed

C29_WitnessSingleStep ==
    /\ pc = "returned" /\ single_step
    /\ last.step_log.start_time /\ last.step_log.end_time /\ last.step_log.duration = Elapsed

\* ------------------------------------------------------------------ C34
\* the events of the given kind among those of the run
EventsOf(evs, kind) == {j \in 1..Len(evs) : evs[j].ev = kind}

\* C34: a run in single-step mode leaves in the log the SystemPromptStep, the entries kept
\* from earlier runs and the new TaskStep; its one call of step appends nothing to the log,
\* invokes no callback and is followed by no loop iteration and no fallback; the value the
\* step returns is the result of run, and any exception it raises reaches the caller
C34_SingleStepMode ==
    [][/\ (pc' = "single" /\ pc # "single") =>
            logs' = (IF reset' \/ Len(logs) = 0 THEN <<SystemPromptStep>>
                     ELSE <<SystemPromptStep>> \o Tail(logs)) \o <<TaskStep>>
       /\ (pc = "single" /\ pc' # "single") =>
            /\ logs' = logs
            /\ Cardinality(EventsOf(events', "model")) = 1
            /\ \A kind \in {"callback", "append", "yield", "planning"} : EventsOf(events', kind) = {}
            /\ hist' = <<>> /\ ~fb'.triggered
            /\ last'.exc = NoExc => (pc' = "returned" /\ result' = last'.ret)
            /\ last'.exc # NoExc => (pc' = "raised" /\ raised' = last'.exc)]_vars

C34_Witness ==
    /\ single_step /\ pc = "raised" /\ raised \in AgentErrorKinds /\ ~reset /\ len0 = 2
    /\ Len(logs) = 3 /\ last.variant = "CodeAgent"

C34_WitnessReturned ==
    /\ single_step /\ pc = "returned" /\ result = IntV("4") /\ reset /\ Len(logs) = 2

\* ------------------------------------------------------------------ C35
\* the ActionSteps of the log that carry the given error
StepsWith(e) == {i \in 1..Len(logs) : logs[i].kind = "ActionStep" /\ logs[i].error = e}

\* C35 as stated: in the code-writing variant, an ActionStep of the log with a
\* GenerationError has llm_output, tool_call, observations and action_output unset; with a
\* ParsingError it has llm_output set and the other three unset; with an ExecutionError it
\* has llm_output and tool_call set and the other two unset; with no error it has tool_call
\* and observations set
C35_FieldsMatchError ==
    variant = "CodeAgent" =>
        /\ \A i \in StepsWith("AgentGenerationError") :
            /\ ~logs[i].llm_output /\ logs[i].tool_call = "None"
            /\ ~logs[i].observations /\ logs[i].action_output = NoneV
        /\ \A i \in StepsWith("AgentParsingError") :
            /\ logs[i].llm_output /\ logs[i].tool_call = "None"
            /\ ~logs[i].observations /\ logs[i].action_output = NoneV
        /\ \A i \in StepsWith("AgentExecutionError") :
            /\ logs[i].llm_output /\ logs[i].tool_call # "None"
            /\ ~logs[i].observations /\ logs[i].action_output = NoneV
        /\ \A i \in StepsWith(NoExc) :
            logs[i].tool_call # "None" /\ logs[i].observations

\* ------------------------------------------------------------------ execute_tool_call
\* self.toolbox.tools and self.managed_agents
ToolboxTools == {"web_search"}
ManagedAgents == {"team_member"}
CalledNames == ToolboxTools \cup ManagedAgents \cup {"unknown_tool"}

\* self.state as earlier calls of run (additional_args) left it
DispatchStates ==
    {EmptyState,
     [k \in {"x"} |-> V42],
     [k \in {"x", "y"} |-> IF k = "x" THEN V42 ELSE StrV("x")]}

ArgValues == {StrV("x"), StrV("y"), StrV("q"), IntV("7")}
KwargNames == {"query", "n"}
NoKwargs == [k \in {} |-> NoneV]

\* the arguments of a tool call: a single string, a mapping, or something else (a list)
CallArguments ==
    {[form |-> "str", val |-> w, kw |-> NoKwargs] : w \in {StrV("x"), StrV("y"), StrV("q")}}
    \cup {[form |-> "dict", val |-> NoneV, kw |-> f] :
            f \in UNION {[K -> ArgValues] : K \in SUBSET KwargNames}}
    \cup {[form |-> "list", val |-> NoneV, kw |-> NoKwargs]}

\* what a tool is called with: positional arguments and keyword arguments
Received(pos, kw) == [pos |-> pos, kw |-> kw]
NotInvoked == Received(<<>>, NoKwargs)

Observation == StrV("observation")

\* if isinstance(value, str) and value in self.state: arguments[key] = self.state[value]
FromState(st, value) ==
    IF IsStr(value) /\ value.v \in DOMAIN st THEN st[value.v] ELSE value

DispatchOutcome(e, m, inv, rec, r) ==
    [exc |-> e, message |-> m, invoked |-> inv, received |-> rec, ret |-> r]

\* variant of the except branch that describes every callee as a tool
FailureMessageToolOnly(tool_name) == "tool description"

\* the except branch: the message embeds the tool's description or the team member's
FailureMessage(tool_name) ==
    IF tool_name \in ToolboxTools THEN "tool description" ELSE "team member description"

\* execute_tool_call(tool_name, arguments) on agent state st; tool_raises: the tool raises
execute_tool_call(st, tool_name, arguments, tool_raises) ==
    IF tool_name \notin ToolboxTools \cup ManagedAgents
    THEN DispatchOutcome("AgentExecutionError", "Unknown tool", FALSE, NotInvoked, NoneV)
    ELSE IF arguments.form = "str"
    THEN LET rec == Received(<<arguments.val>>, NoKwargs)
         IN IF tool_raises
            THEN DispatchOutcome("AgentExecutionError", FailureMessage(tool_name), TRUE, rec, NoneV)
            ELSE DispatchOutcome(NoExc, "", TRUE, rec, Observation)
    ELSE IF arguments.form = "dict"
    THEN LET rec == Received(<<>>, [k \in DOMAIN arguments.kw |-> FromState(st, arguments.kw[k])])
         IN IF tool_raises
            THEN DispatchOutcome("AgentExecutionError", FailureMessage(tool_name), TRUE, rec, NoneV)
            ELSE DispatchOutcome(NoExc, "", TRUE, rec, Observation)
    ELSE DispatchOutcome("AgentExecutionError", FailureMessage(tool_name), FALSE, NotInvoked, NoneV)

\* an agent that is not running; its log and state are given separately
Idle ==
    /\ variant = "ToolCallingAgent" /\ max_iterations = MaxIter /\ planning_interval = 0
    /\ pc = "idle" /\ stream = FALSE /\ reset = TRUE /\ single_step = TRUE
    /\ iteration = 0 /\ final_answer = NoneV /\ result = NoneV /\ raised = NoExc
    /\ len0 = 0 /\ hist = <<>> /\ fb = NoFallback /\ last = NoStep /\ events = <<>>

DispatchInit ==
    /\ Idle
    /\ logs = <<>>
    /\ state \in DispatchStates
    /\ memory = NoMemory /\ dispatch = NoDispatch /\ remote = NoRemote
    /\ construct = NoConstruct /\ validation = NoValidation /\ managed = NoManaged
    /\ run_args = NoRunArgs /\ server = NoServer

\* one call of execute_tool_call
ExecuteToolCall ==
    /\ \E tool_name \in CalledNames, arguments \in CallArguments, tool_raises \in BOOLEAN :
        dispatch' = [called |-> TRUE, tool_name |-> tool_name, arguments |-> arguments,
                     tool_raises |-> tool_raises,
                     out |-> execute_tool_call(state, tool_name, arguments, tool_raises)]
    /\ UNCHANGED <<control, logs, state, memory, remote, construct, validation, managed, run_args, server>>

DispatchNext == ExecuteToolCall

DispatchSpec == DispatchInit /\ [][DispatchNext]_vars

\* ------------------------------------------------------------------ C17
\* what the claim expects a tool to receive for an argument value
Bound(value) ==
    IF IsStr(value) /\ value.v \in DOMAIN state THEN state[value.v] ELSE value

\* C17 as stated: whenever execute_tool_call invokes a tool, for arguments given as a single
\* string or as a mapping, every argument string equal to a key of the agent state has
\* been replaced by the bound value, and every other argument is passed unchanged
C17_StateKeysSubstituted ==
    (dispatch.called /\ dispatch.out.invoked) =>
        /\ dispatch.arguments.form = "str" =>
            dispatch.out.received = Received(<<Bound(dispatch.arguments.val)>>, NoKwargs)
        /\ dispatch.arguments.form = "dict" =>
            /\ dispatch.out.received.pos = <<>>
            /\ DOMAIN dispatch.out.received.kw = DOMAIN dispatch.arguments.kw
            /\ \A k \in DOMAIN dispatch.arguments.kw :
                dispatch.out.received.kw[k] = Bound(dispatch.arguments.kw[k])

\* ------------------------------------------------------------------ C30
\* the description the claim expects in the message of a failed call
DescriptionOf(tool_name) ==
    IF tool_name \in ManagedAgents THEN "team member description" ELSE "tool description"

C30_WitnessUnknown ==
    /\ dispatch.called /\ dispatch.tool_name = "unknown_tool" /\ ~dispatch.out.invoked
    /\ dispatch.out.exc = "AgentExecutionError"

C30_WitnessNotCallable ==
    /\ dispatch.called /\ dispatch.tool_name = "web_search" /\ dispatch.arguments.form = "list"
    /\ dispatch.out.exc = "AgentExecutionError" /\ dispatch.out.message = "tool description"

\* ------------------------------------------------------------------ memory compaction
\* most steps in a compacted log after its first TaskStep
MaxSteps == 2
\* most calls of the compactor on one log
MaxCompactions == 2

\* the steps a run can leave in the log after the TaskStep: a PlanningStep, the TaskStep of a
\* later run, and ActionSteps as the two step() variants, the loop and the fallback leave them
LoggedSteps ==
    {PlanningStep, TaskStep,
     [NewStepLog(0) EXCEPT !.error = "AgentGenerationError"],
     [NewStepLog(0) EXCEPT !.llm_output = TRUE, !.error = "AgentParsingError"],
     [NewStepLog(0) EXCEPT !.llm_output = TRUE, !.tool_call = "python_interpreter",
                           !.error = "AgentExecutionError"],
     [NewStepLog(0) EXCEPT !.llm_output = TRUE, !.tool_call = "python_interpreter",
                           !.observations = TRUE, !.action_output = IntV("4")],
     [NewStepLog(0) EXCEPT !.tool_call = "web_search"],
     [MaxIterationsStep EXCEPT !.action_output = StrV("synth")]}

RECURSIVE SeqsUpTo(_, _)
\* the sequences over S of length at most n
SeqsUpTo(S, n) ==
    IF n = 0 THEN {<<>>}
    ELSE LET shorter == SeqsUpTo(S, n - 1)
         IN shorter \cup {Append(q, x) : q \in {r \in shorter : Len(r) = n - 1}, x \in S}

\* the logs given to the compactor
CompactedLogs == {<<SystemPromptStep, TaskStep>> \o q : q \in SeqsUpTo(LoggedSteps, MaxSteps)}

\* a message: its role, which text it carries, and the log index of the step it is built from
Msg(role, content, i) == [role |-> role, content |-> content, step |-> i]

\* variant of the compactor that keeps the plan text of a PlanningStep in summary mode
StepMessagesPlanAlways(step, i, summary_mode) ==
    IF step.kind = "SystemPromptStep"
    THEN IF ~summary_mode THEN <<Msg("SYSTEM", "system_prompt", i)>> ELSE <<>>
    ELSE IF step.kind = "PlanningStep"
    THEN <<Msg("SYSTEM", "[FACTS LIST]", i), Msg("ASSISTANT", "[PLAN]", i)>>
    ELSE IF step.kind = "TaskStep"
    THEN <<Msg("USER", "New task", i)>>
    ELSE (IF step.llm_output /\ ~summary_mode THEN <<Msg("ASSISTANT", "llm_output", i)>> ELSE <<>>)
         \o (IF step.tool_call # "None" THEN <<Msg("ASSISTANT", "tool_call", i)>> ELSE <<>>)

\* variant of the compactor that gives the facts message another role in summary mode
StepMessagesSummaryRole(step, i, summary_mode) ==
    IF step.kind = "SystemPromptStep"
    THEN IF ~summary_mode THEN <<Msg("SYSTEM", "system_prompt", i)>> ELSE <<>>
    ELSE IF step.kind = "PlanningStep"
    THEN <<Msg(IF summary_mode THEN "ASSISTANT" ELSE "SYSTEM", "[FACTS LIST]", i)>>
         \o (IF ~summary_mode THEN <<Msg("ASSISTANT", "[PLAN]", i)>> ELSE <<>>)
    ELSE IF step.kind = "TaskStep"
    THEN <<Msg("USER", "New task", i)>>
    ELSE (IF step.llm_output /\ ~summary_mode THEN <<Msg("ASSISTANT", "llm_output", i)>> ELSE <<>>)
         \o (IF step.tool_call # "None" THEN <<Msg("ASSISTANT", "tool_call", i)>> ELSE <<>>)

\* the messages write_inner_memory_from_logs appends for the step at index i
StepMessages(step, i, summary_mode) ==
    IF step.kind = "SystemPromptStep"
    THEN IF ~summary_mode THEN <<Msg("SYSTEM", "system_prompt", i)>> ELSE <<>>
    ELSE IF step.kind = "PlanningStep"
    THEN <<Msg("SYSTEM", "[FACTS LIST]", i)>>
         \o (IF ~summary_mode THEN <<Msg("ASSISTANT", "[PLAN]", i)>> ELSE <<>>)
    ELSE IF step.kind = "TaskStep"
    THEN <<Msg("USER", "New task", i)>>
    ELSE (IF step.llm_output /\ ~summary_mode THEN <<Msg("ASSISTANT", "llm_output", i)>> ELSE <<>>)
         \o (IF step.tool_call # "None" THEN <<Msg("ASSISTANT", "tool_call", i)>> ELSE <<>>)

RECURSIVE WriteFrom(_, _, _, _)
\* for i, step_log in enumerate(self.logs), from index i on, with the list built so far
WriteFrom(lg, i, summary_mode, built) ==
    IF i > Len(lg) THEN built
    ELSE WriteFrom(lg, i + 1, summary_mode, built \o StepMessages(lg[i], i, summary_mode))

\* the list write_inner_memory_from_logs builds from the log
write_inner_memory_from_logs(lg, summary_mode) == WriteFrom(lg, 1, summary_mode, <<>>)

\* memory[1:]
DropFirst(msgs) == IF msgs = <<>> THEN <<>> ELSE Tail(msgs)

\* provide_final_answer: self.input_messages as given to the model, built from the log lg
\* that already holds the fallback step; write_inner_memory_from_logs is called with no
\* argument, so with its default summary_mode=True
FinalAnswerInput(lg) ==
    <<Msg("SYSTEM", "got stuck", 0)>>
    \o DropFirst(write_inner_memory_from_logs(lg, TRUE))
    \o <<Msg("USER", "Based on the above", 0)>>

\* the message process_step_logs appends for the step at index i, if any
ResponseMessages(step, i) ==
    IF step.tool_call = "None" /\ step.error # NoExc
    THEN <<Msg("ASSISTANT", "Error", i)>>
    ELSE IF step.tool_call # "None"
    THEN <<Msg("TOOL_RESPONSE",
               IF step.error # NoExc THEN "Call ID, Error"
               ELSE IF step.observations THEN "Call ID, Observation"
               ELSE "Call ID, No error or observations",
               i)>>
    ELSE <<>>

RECURSIVE ProcessFrom(_, _, _)
ProcessFrom(step_logs, i, built) ==
    IF i > Len(step_logs) THEN [exc |-> NoExc, msgs |-> built]
    \* step_log.tool_call on an object of a class without that field
    ELSE IF step_logs[i].kind # "ActionStep" THEN [exc |-> "AttributeError", msgs |-> <<>>]
    ELSE ProcessFrom(step_logs, i + 1, built \o ResponseMessages(step_logs[i], i))

\* process_step_logs(step_logs)
process_step_logs(step_logs) == ProcessFrom(step_logs, 1, <<>>)

\* the ActionSteps of a log, in log order
ActionStepsOf(lg) == SelectSeq(lg, LAMBDA st : st.kind = "ActionStep")

CompactionInit ==
    /\ Idle
    /\ logs \in CompactedLogs
    /\ state = EmptyState
    /\ memory = NoMemory /\ dispatch = NoDispatch /\ remote = NoRemote
    /\ construct = NoConstruct /\ validation = NoValidation /\ managed = NoManaged
    /\ run_args = NoRunArgs /\ server = NoServer

\* the bookkeeping of one call c of the compactor that leaves lg_after as the log
Compacted(c, lg_after) ==
    /\ memory.calls < MaxCompactions
    /\ memory' = [calls |-> memory.calls + 1, cur |-> c, prev |-> memory.cur]
    /\ logs' = lg_after
    /\ UNCHANGED <<control, state, dispatch, remote, construct, validation, managed, run_args, server>>

\* variant of the compactor that consumes the log it reads
WriteInnerMemoryDraining ==
    \E mode \in {"summary", "full"} :
        Compacted(Compaction("write_inner_memory_from_logs", mode, logs,
                             [exc |-> NoExc,
                              msgs |-> write_inner_memory_from_logs(logs, mode = "summary")]),
                  <<>>)

\* one call of self.write_inner_memory_from_logs(summary_mode)
WriteInnerMemory ==
    \E mode \in {"summary", "full"} :
        Compacted(Compaction("write_inner_memory_from_logs", mode, logs,
                             [exc |-> NoExc,
                              msgs |-> write_inner_memory_from_logs(logs, mode = "summary")]),
                  logs)

\* one call of process_step_logs, on the whole log or on its ActionSteps
ProcessStepLogs ==
    \E mode \in {"log", "action_steps"} :
        Compacted(Compaction("process_step_logs", mode, logs,
                             process_step_logs(IF mode = "log" THEN logs ELSE ActionStepsOf(logs))),
                  logs)

\* the max-iterations fallback up to its model call: final_step_log is appended, then
\* provide_final_answer builds the model input from the log
ProvideFinalAnswerInput ==
    \E lg \in {Append(logs, MaxIterationsStep)} :
        Compacted(Compaction("provide_final_answer", "summary", lg,
                             [exc |-> NoExc, msgs |-> FinalAnswerInput(lg)]),
                  lg)

CompactionNext ==
    \/ WriteInnerMemory
    \/ ProcessStepLogs
    \/ ProvideFinalAnswerInput

CompactionSpec == CompactionInit /\ [][CompactionNext]_vars

Wrote == memory.calls >= 1 /\ memory.cur.fn = "write_inner_memory_from_logs"

\* the contents of the messages built from the step at log index i, in the order built
ContentsOf(msgs, i) ==
    LET own == SelectSeq(msgs, LAMBDA m : m.step = i)
    IN [j \in 1..Len(own) |-> own[j].content]

\* what the claim expects of the step at log index i of the compacted log
ExpectedContents(step, summary) ==
    IF step.kind = "PlanningStep"
    THEN IF summary THEN <<"[FACTS LIST]">> ELSE <<"[FACTS LIST]", "[PLAN]">>
    ELSE IF step.kind = "SystemPromptStep"
    THEN IF summary THEN <<>> ELSE <<"system_prompt">>
    ELSE IF step.kind = "TaskStep"
    THEN <<"New task">>
    ELSE (IF step.llm_output /\ ~summary THEN <<"llm_output">> ELSE <<>>)
         \o (IF step.tool_call # "None" THEN <<"tool_call">> ELSE <<>>)

WithoutSystemPrompt(msgs) ==
    IF msgs # <<>> /\ msgs[1].content = "system_prompt" THEN Tail(msgs) ELSE msgs

\* C36 as stated: the model input of the max-iterations fallback is the "got stuck" system
\* message, then every message of the compacted log except a leading system-prompt message,
\* the "New task" message of every TaskStep included, in log order, then the closing user
\* message
C36_FallbackInput ==
    (memory.calls >= 1 /\ memory.cur.fn = "provide_final_answer") =>
        /\ \E summary_mode \in BOOLEAN :
            memory.cur.out.msgs =
                <<Msg("SYSTEM", "got stuck", 0)>>
                \o WithoutSystemPrompt(write_inner_memory_from_logs(memory.cur.log, summary_mode))
                \o <<Msg("USER", "Based on the above", 0)>>
        /\ \A i \in 1..Len(memory.cur.log) :
            memory.cur.log[i].kind = "TaskStep" =>
                \E j \in 1..Len(memory.cur.out.msgs) :
                    memory.cur.out.msgs[j] = Msg("USER", "New task", i)

\* ------------------------------------------------------------------ C37
RECURSIVE IsSubsequence(_, _)
\* the messages of a occur in b, in the same order
IsSubsequence(a, b) ==
    IF a = <<>> THEN TRUE
    ELSE IF b = <<>> THEN FALSE
    ELSE IF Head(a) = Head(b) THEN IsSubsequence(Tail(a), Tail(b))
    ELSE IsSubsequence(a, Tail(b))

\* the last two calls were write_inner_memory_from_logs on the same log, first in the mode
\* first and then in the mode second
WroteTwice(first, second) ==
    /\ memory.calls >= 2
    /\ memory.prev.fn = "write_inner_memory_from_logs" /\ memory.cur.fn = memory.prev.fn
    /\ memory.prev.log = memory.cur.log
    /\ memory.prev.mode = first /\ memory.cur.mode = second

MaxResults == 2

\* the for loop over ["jpeg", "png"], in the opposite order
ImageAttributesPngFirst == <<"png", "jpeg">>

\* for attribute_name in ["jpeg", "png"]
ImageAttributes == <<"jpeg", "png">>

\* for attribute_name in ["chart", ..., "text"]
OtherAttributes ==
    <<"chart", "data", "html", "javascript", "json", "latex", "markdown", "pdf", "svg", "text">>

\* the representations a result of the sandbox can carry; "extra" is read by neither loop
Representations ==
    {ImageAttributes[i] : i \in 1..Len(ImageAttributes)}
    \cup {OtherAttributes[i] : i \in 1..Len(OtherAttributes)}
    \cup {"extra"}

\* a result: is_main_result and the set of its representations that are not None
Result(main, reps) == [main |-> main, reps |-> reps]

\* first results of an execution: every result with at most two representations
HeadResults ==
    {Result(m, R) : m \in BOOLEAN, R \in {Q \in SUBSET Representations : Cardinality(Q) <= 2}}

\* later results of an execution
TailResults == {Result(m, R) : m \in BOOLEAN, R \in {{}, {"text"}, {"png", "text"}}}

\* execution.results
ExecutionResults ==
    {<<>>} \cup
    {<<h>> \o t : h \in HeadResults, t \in SeqsUpTo(TailResults, MaxResults - 1)}

\* execution.logs.stdout
Stdouts == {<<>>, <<"line 1", "line 2">>}

\* "\n".join([str(log) for log in execution.logs.stdout])
JoinLines(stdout) == [t |-> "str", joined |-> stdout]

RECURSIVE FirstNonNull(_, _, _)
\* the first attribute of attrs, from position i on, that the result carries
FirstNonNull(attrs, reps, i) ==
    IF i > Len(attrs) THEN "None"
    ELSE IF attrs[i] \in reps THEN attrs[i]
    ELSE FirstNonNull(attrs, reps, i + 1)

RemoteOutput(kind, from, idx) == [kind |-> kind, from |-> from, result |-> idx]
RemoteNone == RemoteOutput("None", "None", 0)

RECURSIVE SelectFrom(_, _)
\* for result in execution.results, from position i on: what is returned, or nothing found
SelectFrom(results, i) ==
    IF i > Len(results) THEN [found |-> FALSE, output |-> RemoteNone]
    ELSE IF ~results[i].main THEN SelectFrom(results, i + 1)
    ELSE LET img == FirstNonNull(ImageAttributes, results[i].reps, 1)
             oth == FirstNonNull(OtherAttributes, results[i].reps, 1)
         IN IF img # "None" THEN [found |-> TRUE, output |-> RemoteOutput("Image", img, i)]
            ELSE IF oth # "None" THEN [found |-> TRUE, output |-> RemoteOutput("value", oth, i)]
            ELSE SelectFrom(results, i + 1)

\* variant of the test that never takes the early return
NoResultsNever(results) == FALSE

\* if not execution.results
NoResults(results) == results = <<>>

RemoteOutcome(e, m, out, lg, ops) ==
    [exc |-> e, message |-> m, output |-> out, logs |-> lg, ops |-> ops]

\* the sandbox operations before the action code: the state transfer and its unpacking
TransferOps(has_args) == IF has_args THEN <<"write_state", "run_unpacking">> ELSE <<>>

\* __call__ from line 152 on: the action code has run without error
ReturnOf(results, stdout, image_ok, ops) ==
    IF NoResults(results) THEN RemoteOutcome(NoExc, "", RemoteNone, JoinLines(stdout), ops)
    ELSE LET sel == SelectFrom(results, 1)
         IN IF ~sel.found
            THEN RemoteOutcome("ValueError", "No main result returned by executor!", RemoteNone,
                               JoinLines(<<>>), ops)
            ELSE IF sel.output.kind = "Image" /\ ~image_ok
            \* base64.b64decode or Image.open raises
            THEN RemoteOutcome("DecodeError", "", RemoteNone, JoinLines(<<>>), ops)
            ELSE RemoteOutcome(NoExc, "", sel.output, JoinLines(stdout), ops)

\* E2BExecutor.__call__(code_action, additional_args)
\* has_args: additional_args is not empty; unpack_error, action_error: execution.error is set
\* Lines 146-150, which run the unpacking code, stand at column 0 in the file, where they do
\* not compile. in_if is the indentation they are read with: TRUE inside the block of
\* `if len(additional_args) > 0` (line 130), FALSE at the level of the method body, where
\* remote_unloading_code is not bound when additional_args is empty.
RemoteCall(in_if, has_args, unpack_error, action_error, results, stdout, image_ok) ==
    IF ~in_if /\ ~has_args
    THEN RemoteOutcome(UnboundLocal, "", RemoteNone, JoinLines(<<>>), TransferOps(has_args))
    ELSE IF has_args /\ unpack_error
    THEN RemoteOutcome("ValueError", "Executing code yielded an error", RemoteNone, JoinLines(<<>>),
                       TransferOps(has_args))
    ELSE IF action_error
    THEN RemoteOutcome("ValueError", "Executing code yielded an error", RemoteNone, JoinLines(<<>>),
                       Append(TransferOps(has_args), "run_action"))
    ELSE ReturnOf(results, stdout, image_ok, Append(TransferOps(has_args), "run_action"))

\* what the sandbox will do in the call: has_args: additional_args is not empty;
\* unpack_error, action_error: the execution of that code ends with execution.error set;
\* results, stdout: execution.results and execution.logs.stdout of the action code;
\* image_ok: the image data of the results can be decoded;
\* in_if: the indentation lines 146-150 are read with
RemoteInputs ==
    [in_if : BOOLEAN, has_args : BOOLEAN, unpack_error : BOOLEAN, action_error : BOOLEAN,
     results : ExecutionResults, stdout : Stdouts, image_ok : BOOLEAN]

\* the inputs that differ in something the call reads
RelevantInputs ==
    {in \in RemoteInputs :
        /\ in.unpack_error => in.has_args
        /\ (in.unpack_error \/ in.action_error) => (in.results = <<>> /\ in.image_ok)
        /\ in.unpack_error => ~in.action_error}

NotCalled == RemoteOutcome(NoExc, "", RemoteNone, JoinLines(<<>>), <<>>)

RemoteInit ==
    /\ Idle
    /\ logs = <<>>
    /\ state = EmptyState
    /\ memory = NoMemory /\ dispatch = NoDispatch
    /\ construct = NoConstruct /\ validation = NoValidation /\ managed = NoManaged
    /\ run_args = NoRunArgs /\ server = NoServer
    /\ \E in \in RelevantInputs : remote = [called |-> FALSE, in |-> in, out |-> NotCalled]

\* one call of the executor
RemoteExecute ==
    /\ ~remote.called
    /\ remote' = [called |-> TRUE, in |-> remote.in,
                  out |-> RemoteCall(remote.in.in_if, remote.in.has_args,
                                     remote.in.unpack_error, remote.in.action_error,
                                     remote.in.results, remote.in.stdout, remote.in.image_ok)]
    /\ UNCHANGED <<control, logs, state, memory, dispatch, construct, validation, managed, run_args, server>>

RemoteNext == RemoteExecute

RemoteSpec == RemoteInit /\ [][RemoteNext]_vars

\* ------------------------------------------------------------------ C19
\* the order of representations the claim states
PriorityOrder ==
    <<"jpeg", "png", "chart", "data", "html", "javascript", "json", "latex", "markdown", "pdf",
      "svg", "text">>

\* position of a representation in the stated order
PriorityOf(rep) == CHOOSE i \in 1..Len(PriorityOrder) : PriorityOrder[i] = rep

\* the action code ran without error
ActionRan ==
    /\ remote.called /\ ~remote.in.action_error
    /\ remote.out.ops # <<>> /\ remote.out.ops[Len(remote.out.ops)] = "run_action"

\* C19: when the call returns an output other than None, the output is taken from a main
\* result and is that result's first representation that is not None in the order jpeg, png,
\* chart, data, html, javascript, json, latex, markdown, pdf, svg, text; a result carrying an
\* image encoding and a text encoding yields the image
C19_PriorityOrder ==
    (ActionRan /\ remote.out.exc = NoExc /\ remote.out.output # RemoteNone) =>
        LET out == remote.out.output
            res == remote.in.results[out.result]
        IN /\ res.main
           /\ out.from \in res.reps
           /\ \A rep \in res.reps :
                rep \in {PriorityOrder[i] : i \in 1..Len(PriorityOrder)} =>
                    PriorityOf(out.from) <= PriorityOf(rep)
           /\ (res.reps \cap {"jpeg", "png"} # {}) => out.kind = "Image"
           /\ out.kind = "Image" <=> out.from \in {"jpeg", "png"}

C19_Witness ==
    /\ ActionRan /\ remote.out.exc = NoExc
    /\ Len(remote.in.results) = 2
    /\ ~remote.in.results[1].main /\ remote.in.results[1].reps = {"text"}
    /\ remote.in.results[2] = Result(TRUE, {"png", "text"})
    /\ remote.out.output = RemoteOutput("Image", "png", 2)

\* ------------------------------------------------------------------ C20
\* some result carries a representation of a type the executor knows
SomeKnownType ==
    \E i \in 1..Len(remote.in.results) :
        remote.in.results[i].reps \cap {PriorityOrder[j] : j \in 1..Len(PriorityOrder)} # {}

\* C20: when the action code produced no result at all the call returns output None together
\* with the joined stdout; when it produced results none of which carries a representation
\* of a known type the call raises the "no main result" error and returns nothing
C20_NoResultOrNoMain ==
    ActionRan =>
        /\ remote.in.results = <<>> =>
            /\ remote.out.exc = NoExc
            /\ remote.out.output = RemoteNone
            /\ remote.out.logs = JoinLines(remote.in.stdout)
        /\ (remote.in.results # <<>> /\ ~SomeKnownType) =>
            /\ remote.out.exc = "ValueError"
            /\ remote.out.message = "No main result returned by executor!"
            /\ remote.out.output = RemoteNone

C20_Witness ==
    /\ ActionRan
    /\ Len(remote.in.results) = 2
    /\ remote.in.results[1] = Result(TRUE, {"extra"})
    /\ remote.in.results[2] = Result(TRUE, {})
    /\ remote.out.exc = "ValueError"

C20_WitnessNone ==
    /\ ActionRan /\ remote.in.results = <<>> /\ remote.in.stdout # <<>>
    /\ remote.out.exc = NoExc /\ remote.out.output = RemoteNone

\* ------------------------------------------------------------------ C22
\* number of occurrences of op among the sandbox operations of the call
Occurrences(op) ==
    Cardinality({i \in 1..Len(remote.out.ops) : remote.out.ops[i] = op})

\* C22 as stated: on each call, a non-empty shared state is written to the sandbox and
\* unpacked exactly once, before the action code; with an empty shared state nothing is
\* written or unpacked; the action code is run exactly once, after the unpacking, and is
\* not run at all if the unpacking code fails
C22_TransferThenAction ==
    remote.called =>
        LET ops == remote.out.ops
        IN /\ remote.in.has_args =>
                /\ Len(ops) >= 2 /\ ops[1] = "write_state" /\ ops[2] = "run_unpacking"
                /\ Occurrences("write_state") = 1 /\ Occurrences("run_unpacking") = 1
           /\ ~remote.in.has_args =>
                Occurrences("write_state") = 0 /\ Occurrences("run_unpacking") = 0
           /\ IF remote.in.has_args /\ remote.in.unpack_error
              THEN Occurrences("run_action") = 0
              ELSE /\ Occurrences("run_action") = 1
                   /\ ops[Len(ops)] = "run_action"

\* ------------------------------------------------------------------ E2BExecutor.__init__
\* most tools handed to the constructor
MaxTools == 3

\* what the constructor meets in a tool: validate_tool_attributes raises ("invalid"),
\* instance_to_source raises ("unconvertible"), or neither
ToolKinds == {"valid", "invalid", "unconvertible"}

\* the tools argument
ToolLists == SeqsUpTo(ToolKinds, MaxTools)

\* one operation of the constructor: "install" and "run_definitions" are executed in the
\* sandbox, "validate" and "generate" are local and carry the position of the tool
SandboxOp(op, tool) == [op |-> op, tool |-> tool]

ConstructOutcome(e, m, ops) == [exc |-> e, message |-> m, ops |-> ops]

RECURSIVE ToolCodes(_, _, _)
\* for tool in tools, from position i on (lines 58-73)
ToolCodes(tools, i, ops) ==
    IF i > Len(tools) THEN ConstructOutcome(NoExc, "", ops)
    ELSE IF tools[i] = "invalid"
    THEN ConstructOutcome("ValidationError", "", Append(ops, SandboxOp("validate", i)))
    ELSE IF tools[i] = "unconvertible"
    THEN ConstructOutcome(OtherExc, "",
                          ops \o <<SandboxOp("validate", i), SandboxOp("generate", i)>>)
    ELSE ToolCodes(tools, i + 1, ops \o <<SandboxOp("validate", i), SandboxOp("generate", i)>>)

\* additional_imports = additional_imports + ["pickle5"]
WithPickle(n_imports) == n_imports + 1

\* E2BExecutor.__init__(additional_imports, tools)
\* n_imports: len(additional_imports); install_error: execution.error of the installation
E2BExecutorInit(n_imports, install_error, tools) ==
    IF WithPickle(n_imports) > 0
    THEN IF install_error
         THEN ConstructOutcome(OtherExc, "Error installing dependencies",
                               <<SandboxOp("install", 0)>>)
         ELSE LET r == ToolCodes(tools, 1, <<SandboxOp("install", 0)>>)
              IN IF r.exc # NoExc THEN r
                 \* return final_code (line 100): __init__ returns a str
                 ELSE ConstructOutcome("TypeError", "__init__() should return None, not 'str'",
                                       r.ops)
    \* lines 102-112: tool_definition_code and tool_codes are not bound on this path
    ELSE ConstructOutcome(UnboundLocal, "", <<>>)

ConstructInputs ==
    {[n_imports |-> n, install_error |-> e, tools |-> t] :
        n \in {0, 1}, e \in BOOLEAN, t \in ToolLists}

NotConstructed == ConstructOutcome(NoExc, "", <<>>)

ConstructInit ==
    /\ Idle
    /\ logs = <<>>
    /\ state = EmptyState
    /\ memory = NoMemory /\ dispatch = NoDispatch /\ remote = NoRemote
    /\ validation = NoValidation /\ managed = NoManaged /\ run_args = NoRunArgs /\ server = NoServer
    /\ \E in \in ConstructInputs : construct = [called |-> FALSE, in |-> in, out |-> NotConstructed]

\* E2BExecutor(additional_imports, tools)
E2BConstruct ==
    /\ ~construct.called
    /\ construct' = [called |-> TRUE, in |-> construct.in,
                     out |-> E2BExecutorInit(construct.in.n_imports, construct.in.install_error,
                                             construct.in.tools)]
    /\ UNCHANGED <<control, logs, state, memory, dispatch, remote, validation, managed, run_args, server>>

ConstructNext == E2BConstruct

ConstructSpec == ConstructInit /\ [][ConstructNext]_vars

\* ------------------------------------------------------------------ C21
\* number of operations op in a sequence of operations
OpCount(ops, op) == Cardinality({i \in 1..Len(ops) : ops[i].op = op})

RECURSIVE ToolOps(_)
\* validation followed by source generation, for each of the first n tools in order
ToolOps(n) ==
    IF n = 0 THEN <<>>
    ELSE ToolOps(n - 1) \o <<SandboxOp("validate", n), SandboxOp("generate", n)>>

\* C21 as stated: construction installs the packages first; an install error or a tool's
\* validation failure aborts it with no tool code executed in the sandbox; with neither,
\* construction succeeds and has performed the installation, then validation and source
\* generation for each tool, then exactly one sandbox execution of the tool definitions
C21_ConstructionOrder ==
    construct.called =>
        LET in == construct.in
            out == construct.out
            n == Len(in.tools)
        IN /\ out.ops # <<>> /\ out.ops[1] = SandboxOp("install", 0)
           /\ (in.install_error \/ \E i \in 1..n : in.tools[i] = "invalid") =>
                /\ out.exc # NoExc
                /\ OpCount(out.ops, "run_definitions") = 0
           /\ (~in.install_error /\ \A i \in 1..n : in.tools[i] = "valid") =>
                /\ out.exc = NoExc
                /\ out.ops = <<SandboxOp("install", 0)>> \o ToolOps(n)
                                \o <<SandboxOp("run_definitions", 0)>>
           /\ out.exc = NoExc => OpCount(out.ops, "run_definitions") = 1

\* ------------------------------------------------------------------ validate_tool_attributes
\* most methods in the body of a tool class, and most name nodes in the body of a method
MaxMethods == 2
MaxRefs == 2

\* inspect.signature(cls.__init__).parameters, by name: a constructor that declares only the
\* instance reference, under the name self or under another name; one that declares a
\* further parameter; and the signature (self, *args, **kwargs) that a class with no
\* constructor of its own inherits
InitSignatures == {<<"self">>, <<"this">>, <<"self", "x">>, <<"self", "args", "kwargs">>}

\* an assignment statement in the source of the class: the name it binds, the scope it
\* stands in ("class", "method" for the body of a def, "async_method" for the body of an
\* async def), the statement node ("Assign" or "AnnAssign") and its right-hand expression
ClassStatement(name, scope, stmt, value) ==
    [name |-> name, scope |-> scope, stmt |-> stmt, value |-> value]

\* the node types ast.walk yields for a right-hand expression: a string constant, a mapping
\* of string constants, a list of constants (a List node carries a ctx child), a set of
\* constants, and a call of a name
Walk(value) ==
    CASE value = "str" -> {"Constant"}
      [] value = "dict" -> {"Dict", "Constant"}
      [] value = "list" -> {"List", "Constant", "Load"}
      [] value = "set" -> {"Set", "Constant"}
      [] OTHER -> {"Call", "Name", "Load"}

\* (ast.Str, ast.Num, ast.Constant, ast.Dict, ast.List, ast.Set)
LiteralNodes == {"Str", "Num", "Constant", "Dict", "List", "Set"}

\* ClassLevelChecker.visit(class_node): visit_Assign runs on the Assign nodes that are not
\* below a FunctionDef; it records the target and, unless every walked node is a literal
\* node, records it as complex
ClassLevelChecker(stmts) ==
    LET visited == {st \in stmts : st.stmt = "Assign" /\ st.scope # "method"}
    IN [class_attributes |-> {st.name : st \in visited},
        complex_attributes |->
            {st.name : st \in {v \in visited : ~(Walk(v.value) \subseteq LiteralNodes)}}]

\* class bodies: a literal description and two attributes built by a call
ClassBodies ==
    SUBSET {ClassStatement("description", "class", "Assign", "str"),
            ClassStatement("client", "class", "Assign", "call"),
            ClassStatement("session", "class", "Assign", "call")}

\* names that resolve without a local assignment: a builtin and the instance reference
\* (lines 91-97; BASE_BUILTIN_MODULES, arguments and imports are not drawn)
ResolvedNames == {"len", "self"}

\* the nodes of a method body that the checker acts on, in the order they are visited
AstNode(node, id) == [node |-> node, id |-> id]
AstNodes ==
    {AstNode("Name", "helper"), AstNode("Call", "helper"), AstNode("Name", "other"),
     AstNode("Call", "len"), AstNode("Assign", "tmp"), AstNode("Name", "tmp")}

\* bodies of the first method of a class, and of the later ones
HeadBodies == SeqsUpTo(AstNodes, MaxRefs)
TailBodies ==
    {<<>>, <<AstNode("Name", "helper")>>, <<AstNode("Call", "helper"), AstNode("Name", "other")>>}

\* the FunctionDef nodes of the class body
ClassMethods ==
    {<<>>} \cup {<<h>> \o t : h \in HeadBodies, t \in SeqsUpTo(TailBodies, MaxMethods - 1)}

\* one entry of the errors list
Violation(kind, method, names) == [kind |-> kind, method |-> method, names |-> names]

\* the test shared by visit_Name and visit_Call
IsDefined(id, class_attributes, arg_names, imports, assigned) ==
    id \in ResolvedNames \cup class_attributes \cup arg_names \cup imports \cup assigned

\* visit_arguments: {arg.arg for arg in node.args}, with no kwarg and no vararg, for the
\* arguments node of a method (self, id), of a method (self, *, id) whose second parameter
\* is keyword-only and so not in node.args, and of a lambda or nested def (id)
visit_arguments(n) ==
    CASE n.node = "arguments" -> {"self"} \cup ({n.id} \ {"None"})
      [] n.node = "arguments_kwonly" -> {"self"}
      [] OTHER -> {n.id}

\* the nodes whose visitor adds a name to self.assigned_names: visit_Assign, visit_AnnAssign,
\* visit_For, visit_With, visit_ExceptHandler
AssigningNodes == {"Assign", "AnnAssign", "For", "With", "ExceptHandler"}

RECURSIVE MethodChecker(_, _, _, _, _, _, _)
\* MethodChecker.visit on a method body, from node i on: self.errors
MethodChecker(body, i, class_attributes, arg_names, imports, assigned, errors) ==
    IF i > Len(body) THEN errors
    ELSE LET n == body[i]
             undefined == IF IsDefined(n.id, class_attributes, arg_names, imports, assigned)
                          THEN <<>> ELSE <<n.id>>
         IN IF n.node \in {"arguments", "arguments_kwonly", "lambda_arguments"}
            \* self.arg_names is assigned, not extended
            THEN MethodChecker(body, i + 1, class_attributes, visit_arguments(n), imports,
                               assigned, errors)
            ELSE IF n.node = "Import"
            THEN MethodChecker(body, i + 1, class_attributes, arg_names, imports \cup {n.id},
                               assigned, errors)
            ELSE IF n.node \in AssigningNodes
            THEN MethodChecker(body, i + 1, class_attributes, arg_names, imports,
                               assigned \cup {n.id}, errors)
            ELSE IF n.node = "Call"
            \* visit_Call reports the name, then generic_visit reaches visit_Name on node.func
            THEN MethodChecker(body, i + 1, class_attributes, arg_names, imports, assigned,
                               errors \o undefined \o undefined)
            ELSE IF n.node = "Name"
            THEN MethodChecker(body, i + 1, class_attributes, arg_names, imports, assigned,
                               errors \o undefined)
            \* an assignment to a tuple target: no visitor records the names
            ELSE MethodChecker(body, i + 1, class_attributes, arg_names, imports, assigned,
                               errors)

RECURSIVE MethodErrors(_, _, _, _)
\* for node in class_node.body (lines 189-193), from method m on
MethodErrors(methods, m, class_attributes, errors) ==
    IF m > Len(methods) THEN errors
    ELSE LET found == MethodChecker(methods[m], 1, class_attributes, {}, {}, {}, <<>>)
         IN MethodErrors(methods, m + 1, class_attributes,
                         errors \o [k \in 1..Len(found) |-> Violation("undefined", m, {found[k]})])

ValidationOutcome(e, errors) == [exc |-> e, errors |-> errors]

\* variant of the validator in which check_imports=True reports every import statement of a
\* method body
validate_tool_attributes_checking(source, init, attrs, methods, check_imports) ==
    IF source # "class" THEN ValidationOutcome("ValueError", <<>>)
    ELSE LET non_self_params == {init[k] : k \in 1..Len(init)} \ {"self"}
             init_errors == IF non_self_params # {}
                            THEN <<Violation("init", 0, non_self_params)>> ELSE <<>>
             class_level_checker == ClassLevelChecker(attrs)
             complex_attributes == class_level_checker.complex_attributes
             class_attributes == class_level_checker.class_attributes
             errors == IF complex_attributes # {}
                       THEN <<Violation("complex", 0, complex_attributes)>> ELSE <<>>
             imported == {m \in 1..Len(methods) :
                            \E j \in 1..Len(methods[m]) : methods[m][j].node = "Import"}
             import_errors == IF check_imports /\ imported # {}
                              THEN <<Violation("import", 0, {"json"})>> ELSE <<>>
         IN IF init_errors # <<>> THEN ValidationOutcome("TypeError", init_errors)
            ELSE LET all == MethodErrors(methods, 1, class_attributes, errors \o import_errors)
                 IN IF all # <<>> THEN ValidationOutcome("ValueError", all)
                    ELSE ValidationOutcome(NoExc, <<>>)

\* validate_tool_attributes(cls, check_imports): source is what inspect.getsource and
\* ast.parse give ("class", "unparsable" or "not_class"), init the parameter names of
\* cls.__init__, attrs and methods the class body; check_imports selects a branch that holds
\* only `pass` (lines 162-164) and is stored, never read, by MethodChecker (line 26)
validate_tool_attributes(source, init, attrs, methods, check_imports) ==
    IF source # "class" THEN ValidationOutcome("ValueError", <<>>)
    ELSE LET non_self_params == {init[k] : k \in 1..Len(init)} \ {"self"}
             init_errors == IF non_self_params # {}
                            THEN <<Violation("init", 0, non_self_params)>> ELSE <<>>
             class_level_checker == ClassLevelChecker(attrs)
             complex_attributes == class_level_checker.complex_attributes
             class_attributes == class_level_checker.class_attributes
             errors == IF complex_attributes # {}
                       THEN <<Violation("complex", 0, complex_attributes)>> ELSE <<>>
         IN IF init_errors # <<>> THEN ValidationOutcome("TypeError", init_errors)
            ELSE LET all == MethodErrors(methods, 1, class_attributes, errors)
                 IN IF all # <<>> THEN ValidationOutcome("ValueError", all)
                    ELSE ValidationOutcome(NoExc, <<>>)

ValidationInputs ==
    {in \in [source : {"class", "unparsable", "not_class"}, init : InitSignatures,
             attrs : ClassBodies, methods : ClassMethods, check_imports : BOOLEAN] :
        in.source # "class" => (in.init = <<"self">> /\ in.attrs = {} /\ in.methods = <<>>)}

NotValidated == ValidationOutcome(NoExc, <<>>)

ValidationInit ==
    /\ Idle
    /\ logs = <<>>
    /\ state = EmptyState
    /\ memory = NoMemory /\ dispatch = NoDispatch /\ remote = NoRemote
    /\ construct = NoConstruct /\ managed = NoManaged /\ run_args = NoRunArgs /\ server = NoServer
    /\ \E in \in ValidationInputs : validation = [called |-> FALSE, in |-> in, out |-> NotValidated]

\* one call of validate_tool_attributes
ValidateTool ==
    /\ ~validation.called
    /\ validation' = [called |-> TRUE, in |-> validation.in,
                      out |-> validate_tool_attributes(validation.in.source, validation.in.init,
                                                       validation.in.attrs, validation.in.methods,
                                                       validation.in.check_imports)]
    /\ UNCHANGED <<control, logs, state, memory, dispatch, remote, construct, managed,
                   run_args, server>>

ValidationNext == ValidateTool

ValidationSpec == ValidationInit /\ [][ValidationNext]_vars

\* ------------------------------------------------------------------ C23
\* the constructor declares a parameter besides the instance reference, which is the first
\* parameter whatever its name
DeclaresParameters(init) == Len(init) > 1

\* the call reported a violation of the constructor rule
ConstructorViolation ==
    \E k \in 1..Len(validation.out.errors) : validation.out.errors[k].kind = "init"

\* C23 as stated: a tool whose constructor declares any parameter besides the instance
\* reference fails validation, and a tool whose constructor declares no such parameter gets
\* no constructor violation
C23_ConstructorParameters ==
    (validation.called /\ validation.in.source = "class") =>
        /\ DeclaresParameters(validation.in.init) =>
            validation.out.exc # NoExc /\ ConstructorViolation
        /\ ~DeclaresParameters(validation.in.init) => ~ConstructorViolation

\* ------------------------------------------------------------------ C24
\* the names a method body loads or calls at a node where nothing defines them: no builtin,
\* no instance reference, no class attribute, no assignment earlier in the body
OffendingNames(body, class_attributes) ==
    {body[k].id : k \in {j \in 1..Len(body) :
        /\ body[j].node \in {"Name", "Call"}
        /\ body[j].id \notin ResolvedNames \cup class_attributes
        /\ \A h \in 1..(j - 1) : ~(body[h].node = "Assign" /\ body[h].id = body[j].id)}}

\* number of "undefined" violations reported for a name in a method
UndefinedCount(m, id) ==
    Cardinality({k \in 1..Len(validation.out.errors) :
                    validation.out.errors[k] = Violation("undefined", m, {id})})

\* C24 as stated: when the methods are checked, every method gets exactly one "undefined"
\* violation for each distinct offending name, whether the name is loaded or called and
\* however many times it occurs, and none for any other name
C24_OneViolationPerName ==
    (validation.called /\ validation.in.source = "class" /\ validation.out.exc # "TypeError") =>
        \A m \in 1..Len(validation.in.methods) :
            \A id \in {n.id : n \in AstNodes} :
                UndefinedCount(m, id) =
                    IF id \in OffendingNames(validation.in.methods[m],
                                             {a.name : a \in validation.in.attrs})
                    THEN 1 ELSE 0

\* ------------------------------------------------------------------ C25
\* the violations the tool holds, by rule
HasInitViolation == {validation.in.init[k] : k \in 1..Len(validation.in.init)} # {"self"}
HasComplexAttribute == \E a \in validation.in.attrs : a.value = "call"
OffendingMethods ==
    {m \in 1..Len(validation.in.methods) :
        OffendingNames(validation.in.methods[m], {a.name : a \in validation.in.attrs}) # {}}

\* the call reported a violation of the given kind, for the given method
Reported(kind, m) ==
    \E k \in 1..Len(validation.out.errors) :
        validation.out.errors[k].kind = kind /\ validation.out.errors[k].method = m

\* C25 as stated: the constructor violations, the complex class-level attributes and the
\* undefined names of every method of a tool are reported together in one failure, which
\* lists each offending method; validation returns normally iff there is no violation
C25_AllViolationsTogether ==
    (validation.called /\ validation.in.source = "class") =>
        /\ validation.out.exc = NoExc <=>
            ~HasInitViolation /\ ~HasComplexAttribute /\ OffendingMethods = {}
        /\ HasInitViolation => Reported("init", 0)
        /\ HasComplexAttribute => Reported("complex", 0)
        /\ \A m \in OffendingMethods : Reported("undefined", m)

\* ------------------------------------------------------------------ one method in detail
\* the arguments node of the method: def m(self), def m(self, query), def m(self, *, key)
MethodArguments ==
    {AstNode("arguments", "None"), AstNode("arguments", "query"),
     AstNode("arguments_kwonly", "key")}

\* the nodes of the method body, in the order they are visited: the arguments of a lambda or
\* nested def, loads of the parameters, an import and the imported name, the five
\* statements that bind a name and a tuple-target assignment, a load of the bound name, a
\* builtin, a load of a class attribute and a call of a name nothing defines
BodyNodes ==
    {AstNode("lambda_arguments", "y"), AstNode("Name", "query"), AstNode("Name", "key"),
     AstNode("Import", "json"), AstNode("Name", "json")}
    \cup {AstNode(k, "tmp") : k \in AssigningNodes \cup {"TupleAssign", "Name"}}
    \cup {AstNode("Call", "len"), AstNode("Name", "description"), AstNode("Call", "helper")}

\* a method: its arguments node, then at most MaxRefs nodes of its body
MethodBodies == {<<a>> \o b : a \in MethodArguments, b \in SeqsUpTo(BodyNodes, MaxRefs)}

\* class bodies of at most one assignment: at class level with each kind of right-hand
\* side, annotated, and inside the body of a def and of an async def
DetailedClassBodies ==
    {{}} \cup {{ClassStatement("description", "class", "Assign", v)} :
                    v \in {"str", "dict", "list", "set", "call"}}
         \cup {{ClassStatement("description", "class", "AnnAssign", "call")},
               {ClassStatement("description", "method", "Assign", "call")},
               {ClassStatement("description", "async_method", "Assign", "call")}}

\* tool classes with a constructor that takes no parameter and one method
DetailedInputs ==
    [source : {"class"}, init : {<<"self">>}, attrs : DetailedClassBodies,
     methods : {<<m>> : m \in MethodBodies}, check_imports : BOOLEAN]

DetailedInit ==
    /\ Idle
    /\ logs = <<>>
    /\ state = EmptyState
    /\ memory = NoMemory /\ dispatch = NoDispatch /\ remote = NoRemote
    /\ construct = NoConstruct /\ managed = NoManaged /\ run_args = NoRunArgs /\ server = NoServer
    /\ \E in \in DetailedInputs : validation = [called |-> FALSE, in |-> in, out |-> NotValidated]

DetailedSpec == DetailedInit /\ [][ValidationNext]_vars

\* ------------------------------------------------------------------ C32
\* the parameters the method declares
DeclaredParameters(body) ==
    {body[k].id : k \in {j \in 1..Len(body) :
        body[j].node \in {"arguments", "arguments_kwonly"}}} \ {"None"}

\* the class-level attributes of the tool: the names assigned in the class body
ClassLevelNames(stmts) == {st.name : st \in {v \in stmts : v.scope = "class"}}

\* the node at position j loads or calls a name that is a builtin, the instance reference, a
\* parameter of the method, a class-level attribute, or a name imported or assigned earlier
\* in the method
Resolves(body, j, stmts) ==
    \/ body[j].id \in ResolvedNames \cup DeclaredParameters(body) \cup ClassLevelNames(stmts)
    \/ \E h \in 1..(j - 1) :
        body[h].node \in AssigningNodes \cup {"Import"} /\ body[h].id = body[j].id

\* C32 as stated: whatever else the method body contains, no "undefined" violation is
\* reported for a name each of whose loads and calls is of a builtin, a parameter of the
\* method, the instance reference, a class-level attribute, an imported name or a name
\* assigned earlier in the method
C32_ResolvedNamesNotReported ==
    (validation.called /\ Len(validation.in.methods) = 1) =>
        \A id \in {n.id : n \in BodyNodes} :
            (\A j \in 1..Len(validation.in.methods[1]) :
                (validation.in.methods[1][j].node \in {"Name", "Call"}
                    /\ validation.in.methods[1][j].id = id)
                => Resolves(validation.in.methods[1], j, validation.in.attrs))
            => UndefinedCount(1, id) = 0

\* ------------------------------------------------------------------ C33
\* the call reported the attribute as complex
Flagged(name) ==
    \E k \in 1..Len(validation.out.errors) :
        validation.out.errors[k].kind = "complex" /\ name \in validation.out.errors[k].names

\* the right-hand side holds a node that is no literal string, number, constant, mapping,
\* sequence or set
HasNonLiteral(value) == value \notin {"str", "dict", "list", "set"}

\* C33 as stated: a class-level attribute assignment is flagged as complex, and validation
\* fails, if and only if its right-hand side contains a node that is not a literal; a
\* literal mapping, list or set of constants is not flagged; an assignment inside a method
\* body is never flagged
C33_ComplexAttributes ==
    validation.called =>
        \A st \in validation.in.attrs :
            /\ st.scope = "class" => (Flagged(st.name) <=> HasNonLiteral(st.value))
            /\ st.scope # "class" => ~Flagged(st.name)
            /\ Flagged(st.name) => validation.out.exc # NoExc

\* ------------------------------------------------------------------ C39
\* what the validator does on the same class with the other value of check_imports
OtherOutcome ==
    validate_tool_attributes(validation.in.source, validation.in.init, validation.in.attrs,
                             validation.in.methods, ~validation.in.check_imports)

\* the violations of an outcome, as a set
ViolationsOf(out) == {out.errors[k] : k \in 1..Len(out.errors)}

C39_WitnessNormal ==
    /\ validation.called /\ ~validation.in.check_imports
    /\ Len(validation.in.methods[1]) = 3
    /\ validation.in.methods[1][2] = AstNode("Import", "json")
    /\ validation.in.methods[1][3] = AstNode("Name", "json")
    /\ validation.out.exc = NoExc

\* ------------------------------------------------------------------ ManagedAgent.__call__
\* In this section the orchestrator variables are those of the agent wrapped by the
\* ManagedAgent (self.agent); the log and state of the parent agent that invokes it are kept
\* in managed.parent.

\* the defaults of the parameters of run (lines 442-444)
RunDefaults == [stream |-> TRUE, reset |-> TRUE, single_step |-> TRUE]

\* **kwargs of the invocation: nothing besides the request, or values for parameters of run
ManagedKwargs ==
    {[k \in {} |-> TRUE], [single_step |-> FALSE], [single_step |-> FALSE, stream |-> FALSE]}

\* the parent agent in the middle of an iteration
ParentAgents ==
    {[logs |-> <<SystemPromptStep, TaskStep>>, state |-> st] : st \in {EmptyState, [x |-> V42]}}

\* what run hands back when called with stream=True and single_step=False: the generator
\* of stream_run, not yet started
GeneratorV == [t |-> "generator", v |-> "stream_run"]

\* _generate_summary(output)
SummaryV(output) == [t |-> "str", v |-> "summary"]

ManagedInit ==
    /\ NewAgent
    /\ memory = NoMemory /\ dispatch = NoDispatch /\ remote = NoRemote
    /\ construct = NoConstruct /\ validation = NoValidation /\ run_args = NoRunArgs /\ server = NoServer
    /\ \E summary \in BOOLEAN, parent \in ParentAgents :
        managed = [called |-> FALSE, returned |-> FALSE, provide_run_summary |-> summary,
                   parent |-> parent, parent0 |-> parent, kwargs |-> [k \in {} |-> TRUE],
                   output |-> NoneV, exc |-> NoExc]

\* ManagedAgent.__call__ up to and into self.agent.run(full_task, **kwargs)
ManagedCall ==
    /\ ~managed.called
    /\ pc = "idle"
    /\ \E kwargs \in ManagedKwargs :
        \E args \in {Update(RunDefaults, kwargs)} :
            /\ RunWith(args.stream, args.reset, args.single_step, EmptyState)
            /\ managed' = [managed EXCEPT !.called = TRUE, !.kwargs = kwargs,
                                          !.parent0 = managed.parent]
    /\ UNCHANGED <<memory, dispatch, remote, construct, validation, run_args, server>>

\* self.agent.run has handed control back to __call__: after the single step, after
\* direct_run, or at once with the generator of stream_run
RunHandedBack ==
    IF single_step THEN pc \in {"returned", "raised"}
    ELSE IF stream THEN pc = "loop"
    ELSE pc \in {"returned", "raised"}

\* ManagedAgent.__call__ from the return of self.agent.run on
ManagedReturn ==
    /\ managed.called /\ ~managed.returned
    /\ RunHandedBack
    /\ LET output == IF ~single_step /\ stream THEN GeneratorV ELSE result
       IN managed' = [managed EXCEPT
                        !.returned = TRUE,
                        !.exc = IF pc = "raised" THEN raised ELSE NoExc,
                        !.output = IF pc = "raised" THEN NoneV
                                   ELSE IF managed.provide_run_summary THEN SummaryV(output)
                                   ELSE output]
    /\ UNCHANGED <<control, logs, state, memory, dispatch, remote, construct, validation,
                   run_args, server>>

ManagedNext ==
    \/ ManagedCall
    \/ SingleStep
    \/ DirectLoop
    \/ DirectFinish
    \/ ManagedReturn

ManagedSpec == ManagedInit /\ [][ManagedNext]_vars

\* ------------------------------------------------------------------ C26
\* the iteration loop of the wrapped agent has run to its end and produced an answer
SubRunCompleted ==
    /\ ~single_step
    /\ pc = "returned"
    /\ ~LoopGuard(final_answer, iteration, max_iterations)
    /\ iteration <= max_iterations
    /\ ~IsNone(result)

\* C26 as stated: an invocation of a managed agent returns only after the entire run of the
\* wrapped agent, its iteration loop bounded by its own max_iterations, has completed with
\* a final answer, which is what the invocation hands back; the run leaves the log and the
\* state of the parent as they were at the invocation
C26_SubRunCompletesFirst ==
    (managed.called /\ managed.returned /\ managed.exc = NoExc) =>
        /\ SubRunCompleted
        /\ managed.provide_run_summary \/ SameValue(managed.output, result)
        /\ managed.parent = managed.parent0

\* ------------------------------------------------------------------ observed runs
\* The runs of an agent whose caller is observed: run_args keeps the additional_args of
\* the call of run, which the agent itself does not keep.

\* a call of run by a user of the agent, observed
ObservedRun ==
    /\ pc \in {"idle", "returned", "raised"}
    /\ \E s \in BOOLEAN, rst \in BOOLEAN, single \in BOOLEAN, additional_args \in AdditionalArgs :
        /\ RunWith(s, rst, single, additional_args)
        /\ run_args' = [recorded |-> TRUE, args |-> additional_args]
    /\ UNCHANGED <<memory, dispatch, remote, construct, validation, managed, server>>

ObservedNext ==
    \/ ObservedRun
    \/ DirectLoop
    \/ StreamLoop
    \/ DirectFinish
    \/ StreamFinish
    \/ SingleStep

ObservedSpec == Init /\ [][ObservedNext]_vars

\* ------------------------------------------------------------------ C27
\* the run has been called and none of its steps has run yet
AtRunStart == pc \in {"single", "loop"} /\ iteration = 0 /\ hist = <<>>

\* C27 as stated: at the start of a run with reset=True the agent state holds that run's
\* additional arguments and no binding left by an earlier run, so that the final answer of
\* a fresh run is substituted from bindings of that run only
C27_StateRunScoped ==
    (run_args.recorded /\ reset) =>
        /\ AtRunStart => state = run_args.args
        /\ (last.variant = "ToolCallingAgent" /\ last.tool_name = "final_answer"
                /\ last.exc = NoExc) =>
            last.local_final = ToolFinalAnswer(last.arguments, run_args.args)

\* ------------------------------------------------------------------ server.py
\* most client connections, most messages a client sends, most print calls in one message
MaxClients == 2
MaxMessages == 1
MaxPrints == 2

Clients == 1..MaxClients

\* sys.__stdout__, the stream the process started with; a client number stands for the
\* StringIO that the execution serving that client created
RealStdout == 0

\* a piece of output: the client and message whose code printed it and its position in that
\* code's output; ServerLine is a line the server itself prints
Out(c, m, k) == [client |-> c, msg |-> m, k |-> k]
ServerLine == Out(0, 0, 0)
Traceback(c, m) == Out(c, m, -1)

\* the code of a message: how many times it prints, and whether it then raises
Codes == [prints : 1..MaxPrints, raises : BOOLEAN]
NoCode == [prints |-> 0, raises |-> FALSE]

\* start_server up to accept: no connection yet, sys.stdout is the original stream
ServerStarted ==
    [started |-> TRUE,
     sys_stdout |-> RealStdout,
     real |-> <<>>,
     pc |-> [c \in Clients |-> "new"],
     received |-> [c \in Clients |-> 0],
     code |-> [c \in Clients |-> NoCode],
     todo |-> [c \in Clients |-> 0],
     buf |-> [c \in Clients |-> <<>>],
     resp |-> [c \in Clients |-> <<>>]]

\* a write to whatever sys.stdout is bound to at the time of the call
WriteStdout(sv, line) ==
    IF sv.sys_stdout = RealStdout THEN [sv EXCEPT !.real = Append(@, line)]
    ELSE [sv EXCEPT !.buf[sv.sys_stdout] = Append(@, line)]

\* a response: the message it answers, the code of that message and the text sent
Response(kind, m, code, text) == [kind |-> kind, msg |-> m, code |-> code, text |-> text]

ServerInit ==
    /\ Idle
    /\ logs = <<>>
    /\ state = EmptyState
    /\ memory = NoMemory /\ dispatch = NoDispatch /\ remote = NoRemote
    /\ construct = NoConstruct /\ validation = NoValidation /\ managed = NoManaged
    /\ run_args = NoRunArgs
    /\ server = ServerStarted

\* a step of the server: only the server changes
ServerStep(sv) ==
    /\ server' = sv
    /\ UNCHANGED <<control, logs, state, memory, dispatch, remote, construct, validation,
                   managed, run_args>>

\* start_server: accept and Thread(target=handle_client).start(); handle_client prints
\* "Connected by"
Connect(c) ==
    /\ server.pc[c] = "new"
    /\ ServerStep([WriteStdout(server, ServerLine) EXCEPT !.pc[c] = "recv"])

\* handle_client: conn.recv returns a message that is code; execute_code creates its buffers
Receive(c) ==
    /\ server.pc[c] = "recv" /\ server.received[c] < MaxMessages
    /\ \E code \in Codes :
        ServerStep([server EXCEPT !.pc[c] = "redirect", !.received[c] = @ + 1,
                                  !.code[c] = code, !.todo[c] = code.prints,
                                  !.buf[c] = <<>>])

\* handle_client: the message is NEA:INFO, answered without executing anything
Info(c) ==
    /\ server.pc[c] = "recv" /\ server.received[c] < MaxMessages
    /\ ServerStep([server EXCEPT !.received[c] = @ + 1,
                                 !.resp[c] = Append(@, Response("info", server.received[c] + 1,
                                                                NoCode, <<>>))])

\* execute_code: sys.stdout = stdout
Redirect(c) ==
    /\ server.pc[c] = "redirect"
    /\ ServerStep([server EXCEPT !.sys_stdout = c, !.pc[c] = "exec"])

\* exec(code, ...): one print call of the code
ExecPrint(c) ==
    /\ server.pc[c] = "exec" /\ server.todo[c] > 0
    /\ ServerStep([WriteStdout(server, Out(c, server.received[c],
                                          server.code[c].prints - server.todo[c] + 1))
                   EXCEPT !.todo[c] = @ - 1])

\* exec returns or raises; the traceback is printed to the stderr buffer of this execution
\* (file=stderr), kept here in the same buffer; finally: sys.stdout = sys.__stdout__
Restore(c) ==
    /\ server.pc[c] = "exec" /\ server.todo[c] = 0
    /\ ServerStep([server EXCEPT
                     !.sys_stdout = RealStdout,
                     !.buf[c] = IF server.code[c].raises
                                THEN Append(@, Traceback(c, server.received[c])) ELSE @,
                     !.pc[c] = "send"])

\* return stdout.getvalue() + stderr.getvalue(); conn.sendall(output)
Send(c) ==
    /\ server.pc[c] = "send"
    /\ ServerStep([server EXCEPT
                     !.resp[c] = Append(@, Response("exec", server.received[c], server.code[c],
                                                    server.buf[c])),
                     !.pc[c] = "recv"])

\* conn.recv returns no data: the loop ends, the connection is closed and handle_client
\* prints "Connection closed"
Close(c) ==
    /\ server.pc[c] = "recv"
    /\ ServerStep([WriteStdout(server, ServerLine) EXCEPT !.pc[c] = "closed"])

ServerNext ==
    \E c \in Clients :
        \/ Connect(c)
        \/ Receive(c)
        \/ Info(c)
        \/ Redirect(c)
        \/ ExecPrint(c)
        \/ Restore(c)
        \/ Send(c)
        \/ Close(c)

ServerSpec == ServerInit /\ [][ServerNext]_vars

\* ------------------------------------------------------------------ C38
\* the output of the code of a message: what it prints, then the traceback if it raises
OwnOutput(c, m, code) ==
    [k \in 1..code.prints |-> Out(c, m, k)]
    \o (IF code.raises THEN <<Traceback(c, m)>> ELSE <<>>)

\* an execution is in progress for some client
Executing == \E c \in Clients : server.pc[c] \in {"redirect", "exec"}

\* C38 as stated: the response sent for each executed message holds exactly the output of
\* that message's own code, none of that output goes to the real stdout of the process, and
\* sys.stdout is the original stream whenever no execution is in progress
C38_ClientsIsolated ==
    /\ \A c \in Clients : \A j \in 1..Len(server.resp[c]) :
        server.resp[c][j].kind = "exec" =>
            server.resp[c][j].text = OwnOutput(c, server.resp[c][j].msg, server.resp[c][j].code)
    /\ \A j \in 1..Len(server.real) : server.real[j] = ServerLine
    /\ ~Executing => server.sys_stdout = RealStdout

====
